---- MODULE Spec2Model ----
(***************************************************************************)
(* ba_test: the bundle-adjustment test driver (parameter store, iteration  *)
(* controller, outlier-removal cycle), modelled from                       *)
(* src/src/vw/gui/TileGenerator.h.                                         *)
(*                                                                         *)
(* Conventions.  A double is a decimal pair [m, e] standing for m * 10^e   *)
(* with m in 0..9 (m = 0 is zero); only the comparisons the program makes  *)
(* are modelled.  A std::vector is a sequence: element j of the code is    *)
(* element j+1 here.  A file path is [dir, name]; the file system is the   *)
(* set of directories and a function from the existing files to their      *)
(* content.                                                                *)
(***************************************************************************)
EXTENDS Integers, Sequences, FiniteSets, TLC

VARIABLES
  twin,                 \* two runs of run_bundle_adjustment side by side, by their save flag
  errors,               \* the list a diagnostic of main's store was last handed, as it left it
  call,                 \* the last call made on main's store from outside the driver
  argv,                 \* the options on the command line
  config,               \* ProgramOptions, as parse_options returned it
  files,                \* file system: [dirs, content]
  pc,                   \* position of the program
  err,                  \* the uncaught exception, "none" while running
  ba_model,             \* main's BundleAdjustmentModel (NoStore before construction)
  ba_model_no_outliers, \* adjust_bundles' second store (NoStore until built)
  bundle_adjuster,      \* first-pass adjuster
  bundle_adjuster_no_outliers, \* second-pass adjuster
  overall_delta,        \* run_bundle_adjustment local
  abs_tol,              \* run_bundle_adjustment local
  rel_tol,              \* run_bundle_adjustment local
  run,                  \* 0 before the first fit, then the fit pass (1 or 2)
  steps,                \* history: update steps executed, per pass
  finals,               \* history: end_tie_in calls, per pass
  nonconverged,         \* history: the pass left its loop on the budget with a non-zero delta
  fitted,               \* history: the store as each pass left it
  started,              \* history: the store as each pass found it
  detector,             \* history: exit statuses of the cnet_editor invocations
  loaded                \* history: networks loaded by adjust_bundles

vars == << twin, errors, call, argv, config, files, pc, err, ba_model, ba_model_no_outliers,
           bundle_adjuster, bundle_adjuster_no_outliers, overall_delta, abs_tol,
           rel_tol, run, steps, finals, nonconverged, fitted, started, detector,
           loaded >>

(***************************************************************************)
(* Bounds of the model.                                                    *)
(***************************************************************************)
MaxIter == 2      \* largest max_iterations tried
MaxPoints == 2    \* largest number of points of a control network
NumCams == 2      \* number of camera files on the command line

(***************************************************************************)
(* Doubles.                                                                *)
(***************************************************************************)
D(m, e) == [m |-> m, e |-> e]

DZero == D(0, 0)

\* x < y for non-negative doubles
DLt(x, y) ==
  IF x.m = 0 THEN y.m > 0
  ELSE IF y.m = 0 THEN FALSE
  ELSE IF x.e # y.e THEN x.e < y.e
  ELSE x.m < y.m

\* the truth value of a double in a condition: non-zero
DTrue(x) == x.m # 0

Tolerance == D(1, -3)
InitialTol == D(1, 10)
InitialDelta == D(2, 0)

ReportThreshold == 35

\* what a solver step may report
DeltaVals == { DZero, D(5, -4) }
TolVals == { D(9, -4), D(1, -3) }

(***************************************************************************)
(* Vectors, control networks, files.                                       *)
(***************************************************************************)
camera_vector_t == << 0, 0, 0, 0, 0, 0 >>

point_vector_t(position) == position

\* the parameter values a solver step may store
Solutions ==
  { [a_j |-> << 1, 0, 0, 0, 0, 2 >>, b_i |-> << 7, 7, 7 >>],
    [a_j |-> << 0, 3, 0, 1, 0, 0 >>, b_i |-> << 8, 8, 8 >>] }

\* point i of the input networks: its own position, ground control points at
\* the odd places, seen by the first and the last camera; in a bad point the
\* last measure names a camera that does not exist
ControlPoint(i, bad) ==
  [ position |-> << i, i + 1, i + 2 >>,
    type |-> IF i % 2 = 1 THEN "GroundControlPoint" ELSE "TiePoint",
    measures |-> IF bad THEN << 0, NumCams >> ELSE << 0, NumCams - 1 >> ]

\* the input networks: n points, at most one of them bad
Networks ==
  { [i \in 1..n |-> ControlPoint(i, i = bad)] : n \in 1..MaxPoints, bad \in 0..MaxPoints }

CameraFiles == [j \in 1..NumCams |-> j - 1]

CameraParamsReportFile == "iterCameraParam.txt"
PointsReportFile == "iterPointsParam.txt"
CnetEditor == "cnet_editor"
MeanErrorsFile == "image_mean.err"
ProcessedCnetFile == "processed.cnet"

Cwd == << >>

Path(dir, name) == [dir |-> dir, name |-> name]

is_directory(fs, p) == (p.dir \o << p.name >>) \in fs.dirs

\* fs::exists: a file or a directory of that name
Exists(fs, p) == p \in DOMAIN fs.content \/ is_directory(fs, p)

\* a regular file that can be read
IsFile(fs, p) == p \in DOMAIN fs.content

\* fs after an ofstream wrote c to p: nothing happens when the directory is
\* missing or p is a directory
WriteFile(fs, p, c) ==
  IF p.dir \in fs.dirs /\ ~is_directory(fs, p)
  THEN [fs EXCEPT !.content = [q \in (DOMAIN fs.content) \cup {p} |-> IF q = p THEN c ELSE fs.content[q]]]
  ELSE fs

ReadFile(fs, p) == fs.content[p]

RemoveFile(fs, p) == [fs EXCEPT !.content = [q \in (DOMAIN fs.content) \ {p} |-> fs.content[q]]]

NoStore == [kind |-> "none"]

\* no side-by-side runs
NoTwin == << >>

NoCall == [op |-> "none", index |-> 0]
NoAdjuster == [kind |-> "none"]
\* exceptions: the type and, for an I/O error, the path the message names
NoPath == Path(Cwd, "")
NoError == [type |-> "none", path |-> NoPath]
IOErr(p) == [type |-> "IOErr", path |-> p]
ArgumentErr == [type |-> "ArgumentErr", path |-> NoPath]
LogicErr == [type |-> "LogicErr", path |-> NoPath]

(***************************************************************************)
(* ProgramOptions.                                                         *)
(***************************************************************************)
BundleAdjustmentT == { "REF", "SPARSE", "ROBUST_REF", "ROBUST_SPARSE", "SPARSE_HUBER", "SPARSE_CAUCHY" }

ba_type_to_string(t) ==
  CASE t = "REF" -> "ref"
    [] t = "SPARSE" -> "sparse"
    [] t = "SPARSE_HUBER" -> "sparse_huber"
    [] t = "SPARSE_CAUCHY" -> "sparse_cauchy"
    [] t = "ROBUST_REF" -> "robust_ref"
    [] t = "ROBUST_SPARSE" -> "robust_sparse"

\* the values of the options the runs below are started with
ProgramOptions ==
  { [ bundle_adjustment_type |-> "REF",
      lambda |-> D(1, -3),
      control |-> 0,
      camera_position_sigma |-> D(1, 0),
      camera_pose_sigma |-> D(1, -16),
      gcp_sigma |-> D(1, -16),
      outlier_sd_cutoff |-> D(2, 0),
      use_user_lambda |-> FALSE,
      use_ba_type_dirs |-> FALSE,
      save_iteration_data |-> save,
      remove_outliers |-> remove,
      report_level |-> level,
      max_iterations |-> iter,
      camera_files |-> CameraFiles,
      cnet_file |-> "control.cnet",
      data_dir |-> << "data" >>,
      results_dir |-> << "results" >> ] :
    save \in BOOLEAN, remove \in BOOLEAN,
    level \in { ReportThreshold - 1, ReportThreshold },
    iter \in -1..MaxIter }

(***************************************************************************)
(* parse_options.  A set of parsed options (a command line, a configuration *)
(* file) is a function from the names of the options given to their values; *)
(* the variables map holds, per option, its value and whether that is the   *)
(* default.  The configuration file is ConfigFileDefault in the working     *)
(* directory; the Huber and Cauchy parameters and min-matches, which the    *)
(* driver passes on unread, are left out.                                   *)
(***************************************************************************)
ConfigFileDefault == "ba_test.cfg"

NoArgs == << >>

\* the record main holds before parse_options returned
NoOptions == [kind |-> "none"]

NoExit == -1

\* the option tables: generic_options, ba_options, hidden_options
generic_options == { "help", "report-level", "config-file", "print-config" }

ba_options ==
  { "bundle-adjustment-type", "cnet", "lambda", "control", "camera-position-sigma",
    "camera-pose-sigma", "gcp-sigma", "save-iteration-data", "max-iterations", "data-dir",
    "results-dir", "use-ba-type-dirs", "remove-outliers", "outlier-sd-cutoff" }

hidden_options == { "input-files" }

cmdline_options == generic_options \cup ba_options \cup hidden_options

config_file_options == ba_options \cup hidden_options

\* the default_value of the options that have one (a bool_switch defaults to false)
default_value ==
  [ report_level |-> 35, max_iterations |-> 30, control |-> 0 ]

Defaults ==
  ("report-level" :> default_value.report_level)
    @@ ("config-file" :> ConfigFileDefault)
    @@ ("bundle-adjustment-type" :> "ref")
    @@ ("control" :> default_value.control)
    @@ ("camera-position-sigma" :> D(1, 0))
    @@ ("camera-pose-sigma" :> D(1, -16))
    @@ ("gcp-sigma" :> D(1, -16))
    @@ ("save-iteration-data" :> FALSE)
    @@ ("max-iterations" :> default_value.max_iterations)
    @@ ("data-dir" :> Cwd)
    @@ ("use-ba-type-dirs" :> FALSE)
    @@ ("remove-outliers" :> FALSE)
    @@ ("outlier-sd-cutoff" :> D(2, 0))

count(vm, name) == IF name \in DOMAIN vm THEN 1 ELSE 0

\* po::store: a value stored earlier stays unless it is a default; the options
\* of the table that are still without a value get their default
po_store(parsed, vm, options) ==
  LET given == { n \in DOMAIN parsed : ~(n \in DOMAIN vm /\ ~vm[n].defaulted) }
      kept == (DOMAIN vm) \ given
      dflt == { n \in (options \cap DOMAIN Defaults) : n \notin given \cup kept }
  IN  [ n \in given \cup kept \cup dflt |->
          IF n \in given THEN [value |-> parsed[n], defaulted |-> FALSE]
          ELSE IF n \in kept THEN vm[n]
          ELSE [value |-> Defaults[n], defaulted |-> TRUE] ]

\* std::transform(..., ::tolower) on the names that occur
tolower(s) ==
  CASE s = "REF" -> "ref"
    [] s = "Sparse" -> "sparse"
    [] s = "SPARSE" -> "sparse"
    [] s = "Sparse_Huber" -> "sparse_huber"
    [] s = "SPARSE_CAUCHY" -> "sparse_cauchy"
    [] s = "Robust_Ref" -> "robust_ref"
    [] s = "ROBUST_SPARSE" -> "robust_sparse"
    [] s = "Dense" -> "dense"
    [] OTHER -> s

\* mutant: the name is compared as given
string_to_ba_type_CaseSensitive(s) ==
  CASE s = "sparse" -> "SPARSE"
    [] s = "sparse_huber" -> "SPARSE_HUBER"
    [] s = "sparse_cauchy" -> "SPARSE_CAUCHY"
    [] s = "robust_ref" -> "ROBUST_REF"
    [] s = "robust_sparse" -> "ROBUST_SPARSE"
    [] OTHER -> "REF"

string_to_ba_type(s) ==
  CASE tolower(s) = "sparse" -> "SPARSE"
    [] tolower(s) = "sparse_huber" -> "SPARSE_HUBER"
    [] tolower(s) = "sparse_cauchy" -> "SPARSE_CAUCHY"
    [] tolower(s) = "robust_ref" -> "ROBUST_REF"
    [] tolower(s) = "robust_sparse" -> "ROBUST_SPARSE"
    [] OTHER -> "REF"

\* po::notify and the assignments that follow it: the options as stored
\* in opts; a member without a value keeps what its constructor gave it
\* (lambda, read only under use_user_lambda, is shown as 0)
notify(vm) ==
  [ bundle_adjustment_type |-> string_to_ba_type(vm["bundle-adjustment-type"].value),
    lambda |-> IF count(vm, "lambda") > 0 THEN vm["lambda"].value ELSE DZero,
    control |-> vm["control"].value,
    camera_position_sigma |-> vm["camera-position-sigma"].value,
    camera_pose_sigma |-> vm["camera-pose-sigma"].value,
    gcp_sigma |-> vm["gcp-sigma"].value,
    outlier_sd_cutoff |-> vm["outlier-sd-cutoff"].value,
    use_user_lambda |-> count(vm, "lambda") > 0,
    use_ba_type_dirs |-> vm["use-ba-type-dirs"].value,
    save_iteration_data |-> vm["save-iteration-data"].value,
    remove_outliers |-> vm["remove-outliers"].value,
    report_level |-> vm["report-level"].value,
    max_iterations |-> vm["max-iterations"].value,
    camera_files |-> IF count(vm, "input-files") > 0 THEN vm["input-files"].value ELSE << >>,
    cnet_file |-> IF count(vm, "cnet") > 0 THEN vm["cnet"].value ELSE "",
    data_dir |-> vm["data-dir"].value,
    results_dir |-> IF count(vm, "results-dir") > 0 THEN vm["results-dir"].value ELSE Cwd ]

\* mutant: any control that is not negative passes
ControlValid_NotNegative(control) == control >= 0

\* the test on the control option
ControlValid(control) == control = 0 \/ control = 1

\* mutant: a cutoff never counts as given
SdCutoffGiven_Never(vm) == FALSE

\* the user provided a cutoff
SdCutoffGiven(vm) == ~vm["outlier-sd-cutoff"].defaulted

\* parse_options: the exit status when it ends the program (NoExit when it
\* returns) and the options it returns
parse_options(args, fs) ==
  LET vm1 == po_store(args, << >>, cmdline_options)
      cfg == Path(Cwd, vm1["config-file"].value)
      vm == po_store(ReadFile(fs, cfg), vm1, config_file_options)
      opts == notify(vm)
      dirs == IF count(vm, "results-dir") < 1
              THEN [opts EXCEPT !.results_dir = opts.data_dir]
              ELSE opts
  IN  IF count(vm1, "help") > 0 THEN [exit |-> 1, opts |-> NoOptions]
      ELSE IF ~Exists(fs, cfg) \/ is_directory(fs, cfg) THEN [exit |-> 1, opts |-> NoOptions]
      ELSE IF count(vm, "print-config") > 0 THEN [exit |-> 0, opts |-> NoOptions]
      ELSE IF count(vm, "cnet") < 1 THEN [exit |-> 1, opts |-> NoOptions]
      ELSE IF Len(opts.camera_files) < 1 THEN [exit |-> 1, opts |-> NoOptions]
      ELSE IF ~ControlValid(opts.control) THEN [exit |-> 1, opts |-> NoOptions]
      ELSE [ exit |-> NoExit,
             opts |-> IF SdCutoffGiven(vm) THEN [dirs EXCEPT !.remove_outliers = TRUE] ELSE dirs ]

\* fs::extension of the file names that occur
Extension(name) ==
  CASE name = "control.cnet" -> ".cnet"
    [] name = ProcessedCnetFile -> ".cnet"
    [] name = "control.net" -> ".net"
    [] OTHER -> ""

(***************************************************************************)
(* BundleAdjustmentModel: the parameter store.                             *)
(***************************************************************************)
\* mutant: the sanity check admits image_id() = camera_count
ValidImageIds_OffByOne(cameras, network) ==
  \A i \in 1..Len(network) :
    \A m \in 1..Len(network[i].measures) :
      network[i].measures[m] <= Len(cameras)

\* the constructor's sanity check: no measure has an image_id() at or
\* beyond the number of cameras
ValidImageIds(cameras, network) ==
  \A i \in 1..Len(network) :
    \A m \in 1..Len(network[i].measures) :
      network[i].measures[m] < Len(cameras)

RECURSIVE SumSizes(_, _)
SumSizes(network, n) ==
  IF n = 0 THEN 0 ELSE SumSizes(network, n - 1) + Len(network[n].measures)

\* the store the constructor builds when the sanity check passes
BundleAdjustmentModel(cameras, network, camera_position_sigma, camera_pose_sigma, gcp_sigma) ==
  [ kind |-> "store",
    m_cameras |-> cameras,
    m_network |-> network,
    a |-> [j \in 1..Len(cameras) |-> camera_vector_t],
    b |-> [i \in 1..Len(network) |-> point_vector_t(network[i].position)],
    a_target |-> [j \in 1..Len(cameras) |-> camera_vector_t],
    b_target |-> [i \in 1..Len(network) |-> point_vector_t(network[i].position)],
    m_num_pixel_observations |-> SumSizes(network, Len(network)),
    m_camera_position_sigma |-> camera_position_sigma,
    m_camera_pose_sigma |-> camera_pose_sigma,
    m_gcp_sigma |-> gcp_sigma ]

\* mutant: the setter moves the prior along with the parameter
set_A_parameters_AndTarget(store, j, a_j) ==
  [store EXCEPT !.a[j + 1] = a_j, !.a_target[j + 1] = a_j]

set_A_parameters(store, j, a_j) == [store EXCEPT !.a[j + 1] = a_j]

set_B_parameters(store, i, b_i) == [store EXCEPT !.b[i + 1] = b_i]

\* control_network(cnet): the setter of the network
control_network(store, cnet) == [store EXCEPT !.m_network = cnet]

A_parameters(store, j) == store.a[j + 1]

B_parameters(store, i) == store.b[i + 1]

A_target(store, j) == store.a_target[j + 1]

B_target(store, i) == store.b_target[i + 1]

cameras(store) == store.m_cameras

num_cameras(store) == Len(store.a)

num_points(store) == Len(store.b)

\* the rows write_world_points writes: one per point, its current position
write_world_points(store) == [i \in 1..num_points(store) |-> B_parameters(store, i - 1)]

\* mutant: the .adjust files carry the priors, not the fitted parameters
write_adjusted_camera_models_Priors(store, cfg) ==
  [i \in 1..num_cameras(store) |-> [file |-> cfg.camera_files[i], adjustment |-> A_target(store, i - 1)]]

\* the .adjust files write_adjusted_camera_models writes, by camera file
write_adjusted_camera_models(store, cfg) ==
  [i \in 1..num_cameras(store) |-> [file |-> cfg.camera_files[i], adjustment |-> A_parameters(store, i - 1)]]

\* rows appended by write_adjusted_cameras_append: six per camera, of which
\* only the first carries a parameter (the position correction)
RECURSIVE CameraRows(_, _)
CameraRows(store, n) ==
  IF n = 0 THEN << >>
  ELSE CameraRows(store, n - 1) \o
       << << n - 1, store.a[n][1], store.a[n][2], store.a[n][3] >>,
          << n - 1, 1, 0, 0 >>,
          << n - 1, 0, 1, 0 >>,
          << n - 1, 0, 0, 1 >>,
          << n - 1, 0, 0, 0 >>,
          << n - 1, 0, 0, 0 >> >>

write_adjusted_cameras_append(fs, store, filename, dir) ==
  WriteFile(fs, Path(dir, filename),
            (IF IsFile(fs, Path(dir, filename)) THEN ReadFile(fs, Path(dir, filename)) ELSE << >>)
              \o CameraRows(store, Len(store.a)))

RECURSIVE PointRows(_, _)
PointRows(store, n) ==
  IF n = 0 THEN << >>
  ELSE Append(PointRows(store, n - 1), << n - 1, store.b[n][1], store.b[n][2], store.b[n][3] >>)

write_points_append(fs, store, filename, dir) ==
  WriteFile(fs, Path(dir, filename),
            (IF IsFile(fs, Path(dir, filename)) THEN ReadFile(fs, Path(dir, filename)) ELSE << >>)
              \o PointRows(store, Len(store.b)))

\* clear_report_files: both snapshot files exist and are empty afterwards
clear_report_files(fs, cam_file, point_file, dir) ==
  WriteFile(WriteFile(fs, Path(dir, cam_file), << >>), Path(dir, point_file), << >>)

\* the rows write_camera_params writes: per camera, the base camera with its corrections
write_camera_params(store) == [j \in 1..Len(store.m_cameras) |-> << store.m_cameras[j], store.a[j] >>]

\* subvector(v, pos, 3)
subvector(v, pos, n) == [k \in 1..n |-> v[pos + k]]

\* norm_2(x - y), kept as its square
norm_2_squared(x, y) ==
  (x[1] - y[1]) * (x[1] - y[1]) + (x[2] - y[2]) * (x[2] - y[2]) + (x[3] - y[3]) * (x[3] - y[3])

\* the entries image_errors pushes for points 1..n: per point its measures
\* in their order, each the error of the measure against the projection of
\* b[i] by camera image_id() with a[image_id()] (the projection is not
\* evaluated: the entry names what it is computed from)
RECURSIVE PixelErrors(_, _)
PixelErrors(store, n) ==
  IF n = 0 THEN << >>
  ELSE PixelErrors(store, n - 1) \o
       [m \in 1..Len(store.m_network[n].measures) |->
          [ point |-> n - 1,
            camera_idx |-> store.m_network[n].measures[m],
            a |-> store.a[store.m_network[n].measures[m] + 1],
            b |-> store.b[n] ]]

\* mutant: the list is not cleared first
image_errors_Append(store, pix_errors) ==
  pix_errors \o PixelErrors(store, Len(store.m_network))

\* image_errors(pix_errors): the list as the call leaves it
image_errors(store, pix_errors) == PixelErrors(store, Len(store.m_network))

\* camera_position_errors: per camera the distance of its position
\* correction from the prior
camera_position_errors(store, list) ==
  [j \in 1..num_cameras(store) |->
     norm_2_squared(subvector(store.a_target[j], 0, 3), subvector(store.a[j], 0, 3))]

\* camera_pose_errors: per camera the difference of the rotation angles of
\* the prior and the current pose (the angles are not evaluated)
camera_pose_errors(store, list) ==
  [j \in 1..num_cameras(store) |->
     [pi |-> subvector(store.a_target[j], 3, 3), pn |-> subvector(store.a[j], 3, 3)]]

\* the entries gcp_errors pushes for points 1..n
RECURSIVE GcpErrors(_, _)
GcpErrors(store, n) ==
  IF n = 0 THEN << >>
  ELSE IF store.m_network[n].type = "GroundControlPoint"
  THEN Append(GcpErrors(store, n - 1), norm_2_squared(store.b_target[n], store.b[n]))
  ELSE GcpErrors(store, n - 1)

\* gcp_errors: per ground control point the distance from its prior
gcp_errors(store, list) == GcpErrors(store, num_points(store))

(***************************************************************************)
(* The adjuster (solver strategy) and its reporter, as the driver sees     *)
(* them: an iteration count, the setter calls received, and the store the  *)
(* adjuster works on.                                                      *)
(***************************************************************************)
\* the switch of main: the adjuster class and the cost function adjust_bundles
\* is instantiated with
Strategy(t) ==
  CASE t = "REF" -> [adjuster |-> "AdjustRef", cost |-> "L2Error"]
    [] t = "SPARSE" -> [adjuster |-> "AdjustSparse", cost |-> "L2Error"]
    [] t = "SPARSE_HUBER" -> [adjuster |-> "AdjustSparse", cost |-> "HuberError"]
    [] t = "SPARSE_CAUCHY" -> [adjuster |-> "AdjustSparse", cost |-> "CauchyError"]
    [] t = "ROBUST_REF" -> [adjuster |-> "AdjustRobustRef", cost |-> "L2Error"]
    [] t = "ROBUST_SPARSE" -> [adjuster |-> "AdjustRobustSparse", cost |-> "L2Error"]

\* AdjusterT(model, cost_func) inside adjust_bundles<AdjusterT, CostT>
AdjusterT(model_name) ==
  [kind |-> "adjuster", model |-> model_name, iterations |-> 0, calls |-> << >>,
   strategy |-> Strategy(config.bundle_adjustment_type)]

set_lambda(adjuster, lambda) == [adjuster EXCEPT !.calls = Append(@, << "set_lambda", lambda >>)]

set_control(adjuster, control) == [adjuster EXCEPT !.calls = Append(@, << "set_control", control >>)]

\* the adjuster after one update: its iteration count is one higher
iterate(adjuster) == [adjuster EXCEPT !.iterations = @ + 1]

\* one update of the solver on its store: every camera and point parameter
\* is rewritten through the setters
RECURSIVE SetAllA(_, _, _)
SetAllA(store, n, a_j) ==
  IF n = 0 THEN store ELSE set_A_parameters(SetAllA(store, n - 1, a_j), n - 1, a_j)

RECURSIVE SetAllB(_, _, _)
SetAllB(store, n, b_i) ==
  IF n = 0 THEN store ELSE set_B_parameters(SetAllB(store, n - 1, b_i), n - 1, b_i)

update(store, a_j, b_i) == SetAllB(SetAllA(store, num_cameras(store), a_j), num_points(store), b_i)

\* reporter.end_tie_in: writes the image errors file when report_level >= 35
end_tie_in(fs, report_level, pass) ==
  IF report_level >= ReportThreshold
  THEN WriteFile(fs, Path(Cwd, MeanErrorsFile), << "image errors of pass", pass >>)
  ELSE fs

(***************************************************************************)
(* load_control_network.                                                   *)
(***************************************************************************)
load_control_network(fs, file) ==
  IF Extension(file.name) \notin { ".net", ".cnet" } THEN [ok |-> FALSE, error |-> IOErr(file)]
  ELSE IF ~IsFile(fs, file) THEN [ok |-> FALSE, error |-> IOErr(file)]
  ELSE [ok |-> TRUE, cnet |-> ReadFile(fs, file)]

(***************************************************************************)
(* Directories.                                                            *)
(***************************************************************************)
\* results_dir of main
MainResultsDir(cfg) ==
  IF cfg.use_ba_type_dirs
  THEN Append(cfg.results_dir, ba_type_to_string(cfg.bundle_adjustment_type))
  ELSE cfg.results_dir

\* type_dir += "_no_outliers"
no_outliers(type_dir) ==
  CASE type_dir = "ref" -> "ref_no_outliers"
    [] type_dir = "sparse" -> "sparse_no_outliers"
    [] type_dir = "sparse_huber" -> "sparse_huber_no_outliers"
    [] type_dir = "sparse_cauchy" -> "sparse_cauchy_no_outliers"
    [] type_dir = "robust_ref" -> "robust_ref_no_outliers"
    [] type_dir = "robust_sparse" -> "robust_sparse_no_outliers"

\* type_dir of adjust_bundles
TypeDir(cfg) ==
  IF cfg.remove_outliers
  THEN no_outliers(ba_type_to_string(cfg.bundle_adjustment_type))
  ELSE ba_type_to_string(cfg.bundle_adjustment_type)

\* results_dir of adjust_bundles
AdjustResultsDir(cfg) ==
  IF cfg.use_ba_type_dirs
  THEN Append(cfg.results_dir, TypeDir(cfg))
  ELSE cfg.results_dir

create_data_dir(fs, dir) == [fs EXCEPT !.dirs = @ \cup {dir}]

CnetPath(cfg) == Path(cfg.data_dir, cfg.cnet_file)

(***************************************************************************)
(* The initial states: the options, the input files, and what an earlier   *)
(* run may have left behind.                                               *)
(***************************************************************************)
StaleNetwork == << [position |-> << 9, 9, 9 >>, type |-> "TiePoint", measures |-> << 0 >>] >>

\* what is in the way in the working and results directories before the run:
\* nothing, an error report, an error report and a filtered network, or a
\* directory with the name of the error report
LeftOvers ==
  { [content |-> << >>, dirs |-> { }],
    [content |-> (Path(Cwd, MeanErrorsFile) :> << "image errors of pass", 0 >>), dirs |-> { }],
    [content |-> (Path(Cwd, MeanErrorsFile) :> << "image errors of pass", 0 >>)
                   @@ (Path(<< "results" >>, ProcessedCnetFile) :> StaleNetwork),
     dirs |-> { }],
    [content |-> << >>, dirs |-> { << MeanErrorsFile >> }] }

Init ==
  /\ errors = << >>
  /\ twin = NoTwin
  /\ call = NoCall
  /\ argv = NoArgs
  /\ config \in ProgramOptions
  /\ \E cnet \in Networks, old \in LeftOvers :
       files = [dirs |-> { Cwd, config.data_dir, config.results_dir } \cup old.dirs,
                content |-> (CnetPath(config) :> cnet) @@ old.content]
  /\ pc = "main"
  /\ err = NoError
  /\ ba_model = NoStore
  /\ ba_model_no_outliers = NoStore
  /\ bundle_adjuster = NoAdjuster
  /\ bundle_adjuster_no_outliers = NoAdjuster
  /\ overall_delta = InitialDelta
  /\ abs_tol = InitialTol
  /\ rel_tol = InitialTol
  /\ run = 0
  /\ steps = [r \in 1..2 |-> 0]
  /\ finals = [r \in 1..2 |-> 0]
  /\ nonconverged = [r \in 1..2 |-> FALSE]
  /\ fitted = [r \in 1..2 |-> NoStore]
  /\ started = [r \in 1..2 |-> NoStore]
  /\ detector = << >>
  /\ loaded = << >>

Abort(e) ==
  /\ pc' = "abort"
  /\ err' = e

(***************************************************************************)
(* main, up to the call of adjust_bundles.                                 *)
(***************************************************************************)
Main ==
  /\ pc = "main"
  /\ LET made == create_data_dir(files, MainResultsDir(config))
         got == load_control_network(made, CnetPath(config))
         camera_models == config.camera_files
     IN  IF ~got.ok
         THEN /\ Abort(got.error)
              /\ files' = made
              /\ UNCHANGED << ba_model, started >>
         ELSE IF ~ValidImageIds(camera_models, got.cnet)
         THEN /\ Abort(ArgumentErr)
              /\ files' = made
              /\ UNCHANGED << ba_model, started >>
         ELSE LET model == BundleAdjustmentModel(camera_models, got.cnet,
                             config.camera_position_sigma, config.camera_pose_sigma,
                             config.gcp_sigma)
              IN  /\ ba_model' = model
                  /\ started' = [started EXCEPT ![1] = model]
                  /\ files' = WriteFile(
                                WriteFile(made, Path(MainResultsDir(config), "cam_initial.txt"),
                                          write_camera_params(model)),
                                Path(MainResultsDir(config), "wp_initial.txt"),
                                write_world_points(model))
                  /\ pc' = "adjust_bundles"
                  /\ UNCHANGED err
  /\ UNCHANGED << twin, errors, call, argv, config, ba_model_no_outliers, bundle_adjuster, bundle_adjuster_no_outliers,
                  overall_delta, abs_tol, rel_tol, run, steps, finals, nonconverged, fitted, detector, loaded >>

(***************************************************************************)
(* adjust_bundles, up to the first call of run_bundle_adjustment.          *)
(***************************************************************************)
AdjustBundles ==
  /\ pc = "adjust_bundles"
  /\ bundle_adjuster' =
       set_control(
         IF config.use_user_lambda
         THEN set_lambda(AdjusterT("ba_model"), config.lambda)
         ELSE AdjusterT("ba_model"),
         config.control)
  /\ files' = IF config.save_iteration_data
              THEN clear_report_files(files, CameraParamsReportFile, PointsReportFile,
                                      AdjustResultsDir(config))
              ELSE files
  /\ overall_delta' = InitialDelta
  /\ abs_tol' = InitialTol
  /\ rel_tol' = InitialTol
  /\ run' = 1
  /\ pc' = "run1"
  /\ UNCHANGED << twin, errors, call, argv, config, err, ba_model, ba_model_no_outliers, bundle_adjuster_no_outliers,
                  steps, finals, nonconverged, fitted, started, detector, loaded >>

(***************************************************************************)
(* run_bundle_adjustment.                                                  *)
(***************************************************************************)
\* mutant: the loop does not look at the delta
LoopRuns_Always(delta) == TRUE

\* the while condition
LoopRuns(delta) == DTrue(delta)

\* mutant: the budget is not checked
LoopBreaks_NoBudget(iterations, max_iter, at, rt) ==
  DLt(at, Tolerance) \/ DLt(rt, Tolerance)

\* mutant: the budget check is off by one
LoopBreaks_OffByOne(iterations, max_iter, at, rt) ==
  iterations > max_iter \/ DLt(at, Tolerance) \/ DLt(rt, Tolerance)

\* the budget test of the break condition
BudgetUsed(iterations, max_iter) == iterations >= max_iter

\* mutant: the tolerances are not checked
LoopBreaks_NoTolerance(iterations, max_iter, at, rt) ==
  iterations >= max_iter

\* the break condition, checked before each step
LoopBreaks(iterations, max_iter, at, rt) ==
  iterations >= max_iter \/ DLt(at, Tolerance) \/ DLt(rt, Tolerance)

Adjuster == IF run = 2 THEN bundle_adjuster_no_outliers ELSE bundle_adjuster

Model(name) == IF name = "ba_model" THEN ba_model ELSE ba_model_no_outliers

\* mutant: the point positions are not appended
Snapshot_CamerasOnly(fs, store, save, dir) ==
  IF save THEN write_adjusted_cameras_append(fs, store, CameraParamsReportFile, dir) ELSE fs

\* mutant: each snapshot starts the files afresh
Snapshot_Truncates(fs, store, save, dir) ==
  IF save
  THEN write_points_append(
         write_adjusted_cameras_append(
           clear_report_files(fs, CameraParamsReportFile, PointsReportFile, dir),
           store, CameraParamsReportFile, dir),
         store, PointsReportFile, dir)
  ELSE fs

\* the snapshot appends after a step
Snapshot(fs, store, save, dir) ==
  IF save
  THEN write_points_append(
         write_adjusted_cameras_append(fs, store, CameraParamsReportFile, dir),
         store, PointsReportFile, dir)
  ELSE fs

\* one pass of the loop body: the solver's update, then the snapshot
UpdateStep ==
  /\ pc \in { "run1", "run2" }
  /\ LoopRuns(overall_delta)
  /\ ~LoopBreaks(Adjuster.iterations, config.max_iterations, abs_tol, rel_tol)
  /\ \E delta \in DeltaVals, at \in TolVals, rt \in TolVals, sol \in Solutions :
       LET store == update(Model(Adjuster.model), sol.a_j, sol.b_i)
       IN  /\ overall_delta' = delta
           /\ abs_tol' = at
           /\ rel_tol' = rt
           /\ IF Adjuster.model = "ba_model"
              THEN ba_model' = store /\ UNCHANGED ba_model_no_outliers
              ELSE ba_model_no_outliers' = store /\ UNCHANGED ba_model
           /\ files' = Snapshot(files, store, config.save_iteration_data, AdjustResultsDir(config))
  /\ IF run = 2
     THEN /\ bundle_adjuster_no_outliers' = iterate(bundle_adjuster_no_outliers)
          /\ UNCHANGED bundle_adjuster
     ELSE /\ bundle_adjuster' = iterate(bundle_adjuster)
          /\ UNCHANGED bundle_adjuster_no_outliers
  /\ steps' = [steps EXCEPT ![run] = @ + 1]
  /\ UNCHANGED << twin, errors, call, argv, config, pc, err, run, finals, nonconverged, fitted, started, detector, loaded >>

\* mutant: a run that made no step returns without finalizing
Finalize_OnlyAfterSteps ==
  /\ pc \in { "run1", "run2" }
  /\ \/ ~LoopRuns(overall_delta)
     \/ LoopBreaks(Adjuster.iterations, config.max_iterations, abs_tol, rel_tol)
  /\ files' = IF Adjuster.iterations = 0 THEN files ELSE end_tie_in(files, config.report_level, run)
  /\ finals' = IF Adjuster.iterations = 0 THEN finals ELSE [finals EXCEPT ![run] = @ + 1]
  /\ nonconverged' = [nonconverged EXCEPT ![run] =
                         BudgetUsed(Adjuster.iterations, config.max_iterations)
                           /\ LoopRuns(overall_delta)]
  /\ fitted' = [fitted EXCEPT ![run] = Model(Adjuster.model)]
  /\ overall_delta' = InitialDelta
  /\ abs_tol' = InitialTol
  /\ rel_tol' = InitialTol
  /\ pc' = IF run = 2 THEN "ran2" ELSE "ran1"
  /\ UNCHANGED << twin, errors, call, argv, config, err, ba_model, ba_model_no_outliers, bundle_adjuster,
                  bundle_adjuster_no_outliers, run, steps, started, detector, loaded >>

\* the loop is left and the reporter finalizes; the locals go out of scope
Finalize ==
  /\ pc \in { "run1", "run2" }
  /\ \/ ~LoopRuns(overall_delta)
     \/ LoopBreaks(Adjuster.iterations, config.max_iterations, abs_tol, rel_tol)
  /\ files' = end_tie_in(files, config.report_level, run)
  /\ finals' = [finals EXCEPT ![run] = @ + 1]
  /\ nonconverged' = [nonconverged EXCEPT ![run] =
                         BudgetUsed(Adjuster.iterations, config.max_iterations)
                           /\ LoopRuns(overall_delta)]
  /\ fitted' = [fitted EXCEPT ![run] = Model(Adjuster.model)]
  /\ overall_delta' = InitialDelta
  /\ abs_tol' = InitialTol
  /\ rel_tol' = InitialTol
  /\ pc' = IF run = 2 THEN "ran2" ELSE "ran1"
  /\ UNCHANGED << twin, errors, call, argv, config, err, ba_model, ba_model_no_outliers, bundle_adjuster,
                  bundle_adjuster_no_outliers, run, steps, started, detector, loaded >>

(***************************************************************************)
(* remove_outliers and the cnet_editor process it starts.                  *)
(***************************************************************************)
\* what system() may return: exit status 0, exit status 1 (as a wait status), failure to start
SystemResults == { 0, 256, -1 }

\* the test remove_outliers makes on the result of system()
SystemFailed(res) == res = -1

\* mutant: the mean errors file is not checked
MissingInput_NoReportCheck(fs, cnet_file) ==
  IF ~Exists(fs, cnet_file) \/ is_directory(fs, cnet_file)
  THEN << cnet_file >>
  ELSE << >>

\* the required input files remove_outliers checks, in the order it checks them
MissingInput(fs, cnet_file) ==
  IF ~Exists(fs, Path(Cwd, MeanErrorsFile)) \/ is_directory(fs, Path(Cwd, MeanErrorsFile))
  THEN << Path(Cwd, MeanErrorsFile) >>
  ELSE IF ~Exists(fs, cnet_file) \/ is_directory(fs, cnet_file)
  THEN << cnet_file >>
  ELSE << >>

\* cnet_editor -c sd_cutoff -o cnet_out_file -d data_dir cnet_file MeanErrorsFile:
\* on exit status 0 the filtered network is in data_dir/cnet_out_file
cnet_editor(fs, res, cnet_out_file, data_dir, filtered) ==
  IF res = 0 THEN WriteFile(fs, Path(data_dir, cnet_out_file), filtered) ELSE fs

\* the points an outlier filter may leave of a network: any subsequence
RECURSIVE SubSeqs(_)
SubSeqs(s) ==
  IF s = << >> THEN { << >> }
  ELSE LET rest == SubSeqs(Tail(s))
       IN  rest \cup { << Head(s) >> \o t : t \in rest }

\* mutant: the second pass is never made
RemovalRequested_Never(cfg) == FALSE

\* mutant: the second pass is made whatever the option says
RemovalRequested_Always(cfg) == TRUE

\* the test adjust_bundles makes after the first fit
RemovalRequested(cfg) == cfg.remove_outliers

RemoveOutliers ==
  /\ pc = "ran1"
  /\ RemovalRequested(config)
  /\ LET missing == MissingInput(files, CnetPath(config))
     IN  IF missing # << >>
         THEN /\ Abort(IOErr(missing[1]))
              /\ UNCHANGED << files, detector >>
         ELSE \E res \in SystemResults, filtered \in SubSeqs(ReadFile(files, CnetPath(config))) :
                /\ detector' = Append(detector, res)
                /\ files' = cnet_editor(files, res, ProcessedCnetFile,
                                        AdjustResultsDir(config), filtered)
                /\ IF SystemFailed(res)
                   THEN Abort(LogicErr)
                   ELSE pc' = "load" /\ UNCHANGED err
  /\ UNCHANGED << twin, errors, call, argv, config, ba_model, ba_model_no_outliers, bundle_adjuster,
                  bundle_adjuster_no_outliers, overall_delta, abs_tol, rel_tol, run, steps,
                  finals, nonconverged, fitted, started, loaded >>

\* the input control network is gone by the time detection starts
InputRemoved ==
  /\ pc = "ran1"
  /\ RemovalRequested(config)
  /\ IsFile(files, CnetPath(config))
  /\ files' = RemoveFile(files, CnetPath(config))
  /\ UNCHANGED << twin, errors, call, argv, config, pc, err, ba_model, ba_model_no_outliers, bundle_adjuster,
                  bundle_adjuster_no_outliers, overall_delta, abs_tol, rel_tol, run, steps,
                  finals, nonconverged, fitted, started, detector, loaded >>

\* outlier removal is off: adjust_bundles returns after the first fit
SkipRemoval ==
  /\ pc = "ran1"
  /\ ~RemovalRequested(config)
  /\ pc' = "report"
  /\ UNCHANGED << twin, errors, call, argv, config, files, err, ba_model, ba_model_no_outliers, bundle_adjuster,
                  bundle_adjuster_no_outliers, overall_delta, abs_tol, rel_tol, run, steps,
                  finals, nonconverged, fitted, started, detector, loaded >>

(***************************************************************************)
(* adjust_bundles, from the reload to the second call of                   *)
(* run_bundle_adjustment.                                                  *)
(***************************************************************************)
\* mutant: the second store starts from the camera parameters of the first
NewModel_Warm(first, cnet, cfg) ==
  [BundleAdjustmentModel(cameras(first), cnet, cfg.camera_position_sigma,
                         cfg.camera_pose_sigma, cfg.gcp_sigma) EXCEPT !.a = first.a]

\* the store the second pass works on
NewModel(first, cnet, cfg) ==
  BundleAdjustmentModel(cameras(first), cnet, cfg.camera_position_sigma,
                        cfg.camera_pose_sigma, cfg.gcp_sigma)

\* mutant: the second adjuster is made over the first store
SecondAdjusterModel_First == "ba_model"

\* the store bundle_adjuster_no_outliers is made over
SecondAdjusterModel == "ba_model_no_outliers"

Reload ==
  /\ pc = "load"
  /\ LET got == load_control_network(files, Path(AdjustResultsDir(config), ProcessedCnetFile))
     IN  IF ~got.ok
         THEN /\ Abort(got.error)
              /\ UNCHANGED << ba_model_no_outliers, bundle_adjuster, bundle_adjuster_no_outliers,
                              run, started, loaded >>
         ELSE IF ~ValidImageIds(cameras(ba_model), got.cnet)
         THEN /\ Abort(ArgumentErr)
              /\ loaded' = Append(loaded, got.cnet)
              /\ UNCHANGED << ba_model_no_outliers, bundle_adjuster, bundle_adjuster_no_outliers,
                              run, started >>
         ELSE /\ loaded' = Append(loaded, got.cnet)
              /\ ba_model_no_outliers' = NewModel(ba_model, got.cnet, config)
              /\ started' = [started EXCEPT ![2] = NewModel(ba_model, got.cnet, config)]
              /\ bundle_adjuster_no_outliers' =
                   IF config.use_user_lambda
                   THEN set_lambda(AdjusterT(SecondAdjusterModel), config.lambda)
                   ELSE AdjusterT(SecondAdjusterModel)
              /\ bundle_adjuster' = set_control(bundle_adjuster, config.control)
              /\ run' = 2
              /\ pc' = "run2"
              /\ UNCHANGED err
  /\ overall_delta' = InitialDelta
  /\ abs_tol' = InitialTol
  /\ rel_tol' = InitialTol
  /\ UNCHANGED << twin, errors, call, argv, config, files, ba_model, steps, finals, nonconverged, fitted, detector >>

\* mutant: the assignment is missing
CopyAssign_Keep(target, source) == target

\* ba_model = ba_model_no_outliers: member-wise copy
CopyAssign(target, source) == source

Adopt ==
  /\ pc = "ran2"
  /\ ba_model' = CopyAssign(ba_model, ba_model_no_outliers)
  /\ pc' = "report"
  /\ UNCHANGED << twin, errors, call, argv, config, files, err, ba_model_no_outliers, bundle_adjuster,
                  bundle_adjuster_no_outliers, overall_delta, abs_tol, rel_tol, run, steps,
                  finals, nonconverged, fitted, started, detector, loaded >>

(***************************************************************************)
(* main, after adjust_bundles returned.                                    *)
(***************************************************************************)
\* the .adjust files, cam_final.txt and wp_final.txt
Report ==
  /\ pc = "report"
  /\ files' = WriteFile(
                WriteFile(
                  WriteFile(files, Path(MainResultsDir(config), ".adjust"),
                            write_adjusted_camera_models(ba_model, config)),
                  Path(MainResultsDir(config), "cam_final.txt"), write_camera_params(ba_model)),
                Path(MainResultsDir(config), "wp_final.txt"), write_world_points(ba_model))
  /\ pc' = "exit0"
  /\ UNCHANGED << twin, errors, call, argv, config, err, ba_model, ba_model_no_outliers, bundle_adjuster,
                  bundle_adjuster_no_outliers, overall_delta, abs_tol, rel_tol, run, steps,
                  finals, nonconverged, fitted, started, detector, loaded >>

Next ==
  \/ Main
  \/ AdjustBundles
  \/ UpdateStep
  \/ Finalize
  \/ RemoveOutliers
  \/ InputRemoved
  \/ SkipRemoval
  \/ Reload
  \/ Adopt
  \/ Report

Spec == Init /\ [][Next]_vars

(***************************************************************************)
(* The program from its start: parse_options on a command line and a       *)
(* configuration file, then main as above.                                 *)
(***************************************************************************)
\* the strategy names tried: the six names, spellings of them in other
\* letter case, and names of no strategy
TypeNames ==
  { "ref", "sparse", "sparse_huber", "sparse_cauchy", "robust_ref", "robust_sparse",
    "REF", "Sparse", "SPARSE", "Sparse_Huber", "SPARSE_CAUCHY", "Robust_Ref", "ROBUST_SPARSE",
    "dense", "Dense", "" }

Opt(name, given, value) == IF given THEN name :> value ELSE << >>

\* the command lines tried: with and without the switches, the control
\* network, the camera files and a cutoff, the control option absent, 1 or 2;
\* and complete ones that ask for a results directory per solver strategy
\* or name the strategy
CommandLines ==
  { Opt("help", help, TRUE) @@ Opt("print-config", print, TRUE)
      @@ Opt("cnet", cnet, "control.cnet") @@ Opt("input-files", cams, CameraFiles)
      @@ Opt("control", control # default_value.control, control)
      @@ Opt("remove-outliers", remove, TRUE) @@ Opt("outlier-sd-cutoff", cutoff, D(3, 0))
      @@ ("max-iterations" :> 1) :
    help \in BOOLEAN, print \in BOOLEAN, cnet \in BOOLEAN, cams \in BOOLEAN,
    control \in 0..2, remove \in BOOLEAN, cutoff \in BOOLEAN }
  \cup
  { ("cnet" :> "control.cnet") @@ ("input-files" :> CameraFiles)
      @@ ("use-ba-type-dirs" :> TRUE) @@ Opt("save-iteration-data", save, TRUE)
      @@ Opt("remove-outliers", remove, TRUE) @@ ("max-iterations" :> 1) :
    save \in BOOLEAN, remove \in BOOLEAN }
  \cup
  { ("cnet" :> "control.cnet") @@ ("input-files" :> CameraFiles)
      @@ ("bundle-adjustment-type" :> name) @@ Opt("use-ba-type-dirs", dirs, TRUE)
      @@ Opt("remove-outliers", remove, TRUE) @@ ("max-iterations" :> 1) :
    name \in TypeNames, dirs \in BOOLEAN, remove \in BOOLEAN }

\* the configuration files tried: none, an empty one, one that names the
\* control network, one that gives a cutoff, one that does both
ConfigFiles ==
  { [exists |-> FALSE, options |-> << >>],
    [exists |-> TRUE, options |-> << >>],
    [exists |-> TRUE, options |-> ("cnet" :> "control.cnet")],
    [exists |-> TRUE, options |-> ("outlier-sd-cutoff" :> D(2, 0))],
    [exists |-> TRUE, options |-> ("cnet" :> "control.cnet") @@ ("outlier-sd-cutoff" :> D(2, 0))] }

ParseInit ==
  /\ errors = << >>
  /\ twin = NoTwin
  /\ call = NoCall
  /\ argv \in CommandLines
  /\ config = NoOptions
  /\ \E file \in ConfigFiles :
       files = [dirs |-> { Cwd },
                content |-> (Path(Cwd, "control.cnet") :> [i \in 1..MaxPoints |-> ControlPoint(i, FALSE)])
                              @@ Opt(Path(Cwd, ConfigFileDefault), file.exists, file.options)]
  /\ pc = "parse_options"
  /\ err = NoError
  /\ ba_model = NoStore
  /\ ba_model_no_outliers = NoStore
  /\ bundle_adjuster = NoAdjuster
  /\ bundle_adjuster_no_outliers = NoAdjuster
  /\ overall_delta = InitialDelta
  /\ abs_tol = InitialTol
  /\ rel_tol = InitialTol
  /\ run = 0
  /\ steps = [r \in 1..2 |-> 0]
  /\ finals = [r \in 1..2 |-> 0]
  /\ nonconverged = [r \in 1..2 |-> FALSE]
  /\ fitted = [r \in 1..2 |-> NoStore]
  /\ started = [r \in 1..2 |-> NoStore]
  /\ detector = << >>
  /\ loaded = << >>

\* ProgramOptions config = parse_options(argc, argv), or the exit it makes
ParseOptions ==
  /\ pc = "parse_options"
  /\ LET parsed == parse_options(argv, files)
     IN  IF parsed.exit = NoExit
         THEN config' = parsed.opts /\ pc' = "main"
         ELSE config' = config /\ pc' = (IF parsed.exit = 0 THEN "exit0" ELSE "exit1")
  /\ UNCHANGED << twin, errors, call, argv, files, err, ba_model, ba_model_no_outliers, bundle_adjuster,
                  bundle_adjuster_no_outliers, overall_delta, abs_tol, rel_tol, run, steps,
                  finals, nonconverged, fitted, started, detector, loaded >>

ParseNext ==
  \/ ParseOptions
  \/ Next

ParseSpec == ParseInit /\ [][ParseNext]_vars

(***************************************************************************)
(* The parameter store under its public operations: main's store after its *)
(* construction, a second store over a network of one point beside it, and *)
(* calls of the setters and of the assignment in any order.                *)
(***************************************************************************)
\* the networks a store can be constructed from
ValidNetworks == { cnet \in Networks : ValidImageIds(CameraFiles, cnet) }

\* the networks handed to the setter: the valid ones and what a filter leaves of them
SetterNetworks == UNION { SubSeqs(cnet) : cnet \in ValidNetworks }

\* two stores constructed, and nothing else
Constructed ==
  /\ twin = NoTwin
  /\ call = NoCall
  /\ argv = NoArgs
  /\ config \in { c \in ProgramOptions :
                    /\ ~c.save_iteration_data /\ ~c.remove_outliers
                    /\ c.report_level = ReportThreshold /\ c.max_iterations = 0 }
  /\ files = [dirs |-> { Cwd }, content |-> << >>]
  /\ pc = "store"
  /\ err = NoError
  /\ \E first \in ValidNetworks :
       ba_model = BundleAdjustmentModel(CameraFiles, first, config.camera_position_sigma,
                                        config.camera_pose_sigma, config.gcp_sigma)
  /\ ba_model_no_outliers =
       BundleAdjustmentModel(CameraFiles, << ControlPoint(1, FALSE) >>,
                             config.camera_position_sigma, config.camera_pose_sigma,
                             config.gcp_sigma)
  /\ started = << ba_model, ba_model_no_outliers >>
  /\ bundle_adjuster = NoAdjuster
  /\ bundle_adjuster_no_outliers = NoAdjuster
  /\ overall_delta = InitialDelta
  /\ abs_tol = InitialTol
  /\ rel_tol = InitialTol
  /\ run = 0
  /\ steps = [r \in 1..2 |-> 0]
  /\ finals = [r \in 1..2 |-> 0]
  /\ nonconverged = [r \in 1..2 |-> FALSE]
  /\ fitted = [r \in 1..2 |-> NoStore]
  /\ detector = << >>
  /\ loaded = << >>

StoreInit ==
  /\ errors = << >>
  /\ Constructed

StoreUnchanged ==
  UNCHANGED << twin, errors, argv, config, files, pc, err, ba_model_no_outliers, bundle_adjuster,
               bundle_adjuster_no_outliers, overall_delta, abs_tol, rel_tol, run, steps,
               finals, nonconverged, fitted, started, detector, loaded >>

SetA ==
  /\ \E j \in 0..(num_cameras(ba_model) - 1), sol \in Solutions :
       /\ ba_model' = set_A_parameters(ba_model, j, sol.a_j)
       /\ call' = [op |-> "set_A_parameters", index |-> j]
  /\ StoreUnchanged

SetB ==
  /\ \E i \in 0..(num_points(ba_model) - 1), sol \in Solutions :
       /\ ba_model' = set_B_parameters(ba_model, i, sol.b_i)
       /\ call' = [op |-> "set_B_parameters", index |-> i]
  /\ StoreUnchanged

SetControlNetwork ==
  /\ \E cnet \in SetterNetworks :
       /\ ba_model' = control_network(ba_model, cnet)
       /\ call' = [op |-> "control_network", index |-> 0]
  /\ StoreUnchanged

Assign ==
  /\ ba_model' = CopyAssign(ba_model, ba_model_no_outliers)
  /\ call' = [op |-> "operator=", index |-> 0]
  /\ StoreUnchanged

StoreNext ==
  \/ SetA
  \/ SetB
  \/ SetControlNetwork
  \/ Assign

StoreSpec == StoreInit /\ [][StoreNext]_vars

(***************************************************************************)
(* The parameter store as the solver and the reporter use it: the solver   *)
(* sets parameters, and once it is done the reporter calls the diagnostics *)
(* with lists of its own, in any order and any number of times.            *)
(***************************************************************************)
\* what the list handed to a diagnostic may hold on entry
StaleErrors == { << >>, << 1 >> }

DiagInit ==
  /\ errors \in StaleErrors
  /\ Constructed

DiagUnchanged ==
  UNCHANGED << twin, argv, config, files, err, ba_model_no_outliers, bundle_adjuster,
               bundle_adjuster_no_outliers, overall_delta, abs_tol, rel_tol, run, steps,
               finals, nonconverged, fitted, started, detector, loaded >>

SolverSetA == pc = "store" /\ SetA

SolverSetB == pc = "store" /\ SetB

\* the lists a diagnostic is called on: one of the caller, or the list of the call before
Lists == StaleErrors \cup { errors }

\* the call op of a diagnostic has left the list as result
Called(op, result) ==
  /\ errors' = result
  /\ call' = [op |-> op, index |-> 0]
  /\ pc' = "end_tie_in"
  /\ UNCHANGED ba_model
  /\ DiagUnchanged

ImageErrors ==
  \E pix_errors \in Lists : Called("image_errors", image_errors(ba_model, pix_errors))

CameraPositionErrors ==
  \E list \in Lists : Called("camera_position_errors", camera_position_errors(ba_model, list))

CameraPoseErrors ==
  \E list \in Lists : Called("camera_pose_errors", camera_pose_errors(ba_model, list))

GcpErrorsCall ==
  \E list \in Lists : Called("gcp_errors", gcp_errors(ba_model, list))

DiagNext ==
  \/ SolverSetA
  \/ SolverSetB
  \/ ImageErrors
  \/ CameraPositionErrors
  \/ CameraPoseErrors
  \/ GcpErrorsCall

DiagSpec == DiagInit /\ [][DiagNext]_vars

(***************************************************************************)
(* run_bundle_adjustment called twice on the same store, solver and budget, *)
(* once with save and once without, the solver reporting the same to both.  *)
(***************************************************************************)
\* a call of run_bundle_adjustment at its entry; the cycle has emptied the
\* snapshot files if it is to save
Entry(save) ==
  [ store |-> ba_model,
    adjuster |-> bundle_adjuster,
    overall_delta |-> InitialDelta,
    abs_tol |-> InitialTol,
    rel_tol |-> InitialTol,
    files |-> IF save
              THEN clear_report_files(files, CameraParamsReportFile, PointsReportFile,
                                      AdjustResultsDir(config))
              ELSE files,
    steps |-> 0,
    finals |-> 0,
    stop |-> "none" ]

\* the call is in its loop and the next pass through it makes a step
Steps(r, max_iter) ==
  /\ r.stop = "none"
  /\ LoopRuns(r.overall_delta)
  /\ ~LoopBreaks(r.adjuster.iterations, max_iter, r.abs_tol, r.rel_tol)

\* mutant: a saving run does not look at the budget and the tolerances
Pass_SavingRunsOn(r, save, max_iter, level, dir, delta, at, rt, sol) ==
  IF r.stop # "none"
  THEN r
  ELSE IF ~LoopRuns(r.overall_delta)
  THEN [r EXCEPT !.stop = "delta", !.finals = @ + 1, !.files = end_tie_in(@, level, 1)]
  ELSE IF ~save /\ LoopBreaks(r.adjuster.iterations, max_iter, r.abs_tol, r.rel_tol)
  THEN [r EXCEPT !.stop = "break", !.finals = @ + 1, !.files = end_tie_in(@, level, 1)]
  ELSE LET store == update(r.store, sol.a_j, sol.b_i)
       IN  [r EXCEPT !.overall_delta = delta, !.abs_tol = at, !.rel_tol = rt,
                     !.store = store, !.adjuster = iterate(@),
                     !.files = Snapshot(@, store, save, dir), !.steps = @ + 1]

\* mutant: the budget and tolerance test goes back to the while condition
Pass_ContinuesOnBreak(r, save, max_iter, level, dir, delta, at, rt, sol) ==
  IF r.stop # "none"
  THEN r
  ELSE IF ~LoopRuns(r.overall_delta)
  THEN [r EXCEPT !.stop = "delta", !.finals = @ + 1, !.files = end_tie_in(@, level, 1)]
  ELSE IF LoopBreaks(r.adjuster.iterations, max_iter, r.abs_tol, r.rel_tol)
  THEN r
  ELSE LET store == update(r.store, sol.a_j, sol.b_i)
       IN  [r EXCEPT !.overall_delta = delta, !.abs_tol = at, !.rel_tol = rt,
                     !.store = store, !.adjuster = iterate(@),
                     !.files = Snapshot(@, store, save, dir), !.steps = @ + 1]

\* one pass through the loop of run_bundle_adjustment, the solver reporting
\* delta, at and rt and writing sol: the while condition, the break, the
\* update and the snapshot, or end_tie_in when the loop is left
Pass(r, save, max_iter, level, dir, delta, at, rt, sol) ==
  IF r.stop # "none"
  THEN r
  ELSE IF ~LoopRuns(r.overall_delta)
  THEN [r EXCEPT !.stop = "delta", !.finals = @ + 1, !.files = end_tie_in(@, level, 1)]
  ELSE IF LoopBreaks(r.adjuster.iterations, max_iter, r.abs_tol, r.rel_tol)
  THEN [r EXCEPT !.stop = "break", !.finals = @ + 1, !.files = end_tie_in(@, level, 1)]
  ELSE LET store == update(r.store, sol.a_j, sol.b_i)
       IN  [r EXCEPT !.overall_delta = delta, !.abs_tol = at, !.rel_tol = rt,
                     !.store = store, !.adjuster = iterate(@),
                     !.files = Snapshot(@, store, save, dir), !.steps = @ + 1]

\* the state at the entry of the first fit, and the two calls
TwinInit ==
  /\ errors = << >>
  /\ call = NoCall
  /\ argv = NoArgs
  /\ config \in { c \in ProgramOptions : ~c.remove_outliers }
  /\ \E cnet \in ValidNetworks :
       /\ files = [dirs |-> { Cwd, config.data_dir, config.results_dir },
                   content |-> (CnetPath(config) :> cnet)]
       /\ ba_model = BundleAdjustmentModel(CameraFiles, cnet, config.camera_position_sigma,
                                           config.camera_pose_sigma, config.gcp_sigma)
  /\ ba_model_no_outliers = NoStore
  /\ bundle_adjuster = set_control(AdjusterT("ba_model"), config.control)
  /\ bundle_adjuster_no_outliers = NoAdjuster
  /\ pc = "run1"
  /\ err = NoError
  /\ overall_delta = InitialDelta
  /\ abs_tol = InitialTol
  /\ rel_tol = InitialTol
  /\ run = 1
  /\ steps = [r \in 1..2 |-> 0]
  /\ finals = [r \in 1..2 |-> 0]
  /\ nonconverged = [r \in 1..2 |-> FALSE]
  /\ fitted = [r \in 1..2 |-> NoStore]
  /\ started = << ba_model, NoStore >>
  /\ detector = << >>
  /\ loaded = << ReadFile(files, CnetPath(config)) >>
  /\ twin = [save \in BOOLEAN |-> Entry(save)]

TwinUnchanged ==
  UNCHANGED << errors, call, argv, config, files, pc, err, ba_model, ba_model_no_outliers,
               bundle_adjuster, bundle_adjuster_no_outliers, overall_delta, abs_tol,
               rel_tol, run, steps, finals, nonconverged, fitted, started, detector,
               loaded >>

\* both calls go once through the loop; the solver reports the same to both
TwinPass(delta, at, rt, sol) ==
  twin' = [save \in BOOLEAN |->
             Pass(twin[save], save, config.max_iterations, config.report_level,
                  AdjustResultsDir(config), delta, at, rt, sol)]

\* a pass in which a call makes an update step
TwinUpdate ==
  /\ \E save \in BOOLEAN : Steps(twin[save], config.max_iterations)
  /\ \E delta \in DeltaVals, at \in TolVals, rt \in TolVals, sol \in Solutions :
       TwinPass(delta, at, rt, sol)
  /\ TwinUnchanged

\* a pass in which no call makes a step: the calls in their loop leave it
TwinReturn ==
  /\ \E save \in BOOLEAN : twin[save].stop = "none"
  /\ \A save \in BOOLEAN : ~Steps(twin[save], config.max_iterations)
  /\ \E sol \in Solutions : TwinPass(InitialDelta, InitialTol, InitialTol, sol)
  /\ TwinUnchanged

TwinNext == TwinUpdate \/ TwinReturn

TwinSpec == TwinInit /\ [][TwinNext]_vars

\* the calls with a solver whose update returns and a loop that goes on while
\* it can
FairTwinSpec == TwinSpec /\ WF_vars(TwinUpdate) /\ WF_vars(TwinReturn)

(***************************************************************************)
(* Properties.                                                             *)
(***************************************************************************)
InRun == pc \in { "run1", "run2" }

\* the first pass is over
Ran1 == run >= 1 /\ pc # "run1"

\* the second pass is over
Ran2 == run = 2 /\ pc # "run2"

\* adjust_bundles has returned to main
Returned == pc \in { "report", "exit0" }

AllZero(v) == \A k \in 1..Len(v) : v[k] = 0

\* every current parameter of the store equals its prior: cameras all zero,
\* points at the positions of the network
AtPriors(store) ==
  /\ Len(store.a) = Len(store.m_cameras)
  /\ Len(store.b) = Len(store.m_network)
  /\ \A j \in 1..Len(store.a) : store.a[j] = store.a_target[j] /\ AllZero(store.a[j])
  /\ \A i \in 1..Len(store.b) :
       store.b[i] = store.b_target[i] /\ store.b[i] = store.m_network[i].position

\* C1: in a run of the iteration controller with max_iterations >= 0 the
\* number of update steps executed never exceeds max_iterations, whatever
\* deltas and tolerances the solver reports.
C1_StepsWithinBudget ==
  config.max_iterations >= 0 => \A r \in 1..2 : steps[r] <= config.max_iterations

\* the budget is used up while the last delta is non-zero and both
\* tolerances are at or above 1e-3
C1_Witness ==
  /\ pc = "run1"
  /\ config.max_iterations = MaxIter
  /\ steps[1] = config.max_iterations
  /\ DTrue(overall_delta)
  /\ ~DLt(abs_tol, Tolerance) /\ ~DLt(rel_tol, Tolerance)

\* C2: once an update step returned a delta of 0 no further update step is
\* executed in that run, even below the budget and with both tolerances at
\* or above 1e-3; and while the last delta is non-zero, the count is below
\* max_iterations and both tolerances are at or above 1e-3, the next step
\* of the controller is another update step.
C2_StopsExactlyOnZeroDelta ==
  [][ /\ (InRun /\ overall_delta = DZero) => steps' = steps
      /\ ( /\ InRun
           /\ overall_delta # DZero
           /\ steps[run] < config.max_iterations
           /\ ~DLt(abs_tol, Tolerance) /\ ~DLt(rel_tol, Tolerance) )
         => steps' = [steps EXCEPT ![run] = @ + 1] ]_vars

\* a step returned delta 0 below the budget with both tolerances at 1e-3
C2_Witness ==
  /\ pc = "run1"
  /\ overall_delta = DZero
  /\ steps[1] >= 1
  /\ steps[1] < config.max_iterations
  /\ ~DLt(abs_tol, Tolerance) /\ ~DLt(rel_tol, Tolerance)

\* C3: with max_iterations = 0 a fit pass executes no update step, and after
\* the pass every camera and point parameter of its store equals its prior
\* (cameras all zero, points at the network positions).
C3_ZeroIterationsKeepPriors ==
  config.max_iterations = 0 =>
    \A r \in 1..2 :
      /\ steps[r] = 0
      /\ fitted[r].kind = "store" => AtPriors(fitted[r])

\* both passes of a cycle are over with max_iterations = 0
C3_Witness ==
  /\ config.max_iterations = 0
  /\ pc = "exit0"
  /\ finals = << 1, 1 >>
  /\ fitted[1].kind = "store" /\ fitted[2].kind = "store"

\* C4: with outlier removal disabled exactly one run of the iteration
\* controller happens, the detector is never invoked, no network is
\* reloaded, no second store is built, and the store main reports from is
\* the first-pass store with the parameter values of the first fit.
C4_DisabledRemovalIsFirstFitAlone ==
  ~config.remove_outliers =>
    /\ detector = << >>
    /\ loaded = << >>
    /\ ba_model_no_outliers = NoStore
    /\ bundle_adjuster_no_outliers = NoAdjuster
    /\ run <= 1 /\ steps[2] = 0 /\ finals[2] = 0
    /\ Returned => /\ finals[1] = 1
                   /\ ba_model = fitted[1]
                   /\ ba_model.m_network = started[1].m_network
    /\ pc = "exit0" =>
         ReadFile(files, Path(MainResultsDir(config), "wp_final.txt"))
           = write_world_points(fitted[1])

\* a cycle without outlier removal has ended after a first fit that moved the parameters
C4_Witness ==
  /\ ~config.remove_outliers
  /\ pc = "exit0"
  /\ steps[1] > 0
  /\ fitted[1].a # started[1].a

\* the detector ended with status 0 and the network loaded after it has
\* strictly fewer points than the original
FilteredSmaller ==
  /\ detector = << 0 >>
  /\ loaded # << >>
  /\ Len(loaded[1]) < Len(started[1].m_network)

\* C5: with outlier removal enabled and the detector returning a network
\* with strictly fewer points than the original, the store main reports
\* from is the second-pass store: its point count, and the number of world
\* points in the final dump, is the filtered count, and its parameter values
\* are those the second fit left.
C5_DoneExposesSecondStore ==
  (config.remove_outliers /\ FilteredSmaller /\ Returned) =>
    /\ ba_model = fitted[2]
    /\ ba_model.m_network = loaded[1]
    /\ num_points(ba_model) = Len(loaded[1])
    /\ num_points(ba_model) # Len(started[1].m_network)
    /\ pc = "exit0" =>
         /\ Len(ReadFile(files, Path(MainResultsDir(config), "wp_final.txt"))) = Len(loaded[1])
         /\ ReadFile(files, Path(MainResultsDir(config), "wp_final.txt"))
              = write_world_points(fitted[2])

\* a two-pass cycle over a strictly smaller filtered network has ended, both fits having moved the parameters
C5_Witness ==
  /\ config.remove_outliers
  /\ FilteredSmaller
  /\ pc = "exit0"
  /\ steps[1] > 0 /\ steps[2] > 0
  /\ Len(loaded[1]) > 0
  /\ fitted[2].b # fitted[1].b

\* every observation of every point names a camera that exists
IndicesInRange(network, camera_count) ==
  \A i \in DOMAIN network :
    \A m \in DOMAIN network[i].measures :
      network[i].measures[m] \in 0..(camera_count - 1)

\* C6: construction of the parameter store succeeds if and only if every
\* observation of every point of the control network has a camera index
\* below the number of cameras; with an index out of range it fails with an
\* error, every time, and no store is produced.
C6_ConstructionChecksIndices ==
  [][ /\ pc = "main" =>
           LET network == ReadFile(files, CnetPath(config))
           IN  IF IndicesInRange(network, Len(config.camera_files))
               THEN /\ ba_model'.kind = "store"
                    /\ ba_model'.m_network = network
                    /\ pc' = "adjust_bundles" /\ err' = NoError
               ELSE /\ ba_model' = NoStore
                    /\ pc' = "abort" /\ err' = ArgumentErr
      /\ (pc = "load" /\ IsFile(files, Path(AdjustResultsDir(config), ProcessedCnetFile))) =>
           LET network == ReadFile(files, Path(AdjustResultsDir(config), ProcessedCnetFile))
           IN  IF IndicesInRange(network, Len(config.camera_files))
               THEN /\ ba_model_no_outliers'.kind = "store"
                    /\ ba_model_no_outliers'.m_network = network
                    /\ pc' = "run2" /\ err' = NoError
               ELSE /\ ba_model_no_outliers' = NoStore
                    /\ pc' = "abort" /\ err' = ArgumentErr
    ]_<< pc, ba_model, ba_model_no_outliers, err >>

\* a network with an observation of a camera that does not exist was
\* refused: the run is over with the error and without a store
C6_Witness ==
  /\ pc = "abort"
  /\ err = ArgumentErr
  /\ ba_model = NoStore
  /\ ~IndicesInRange(ReadFile(files, CnetPath(config)), Len(config.camera_files))

\* C7 (as claimed): any failure of the detector, a non-zero exit status
\* included, ends the cycle with an error: the filtered network is not
\* loaded, the second fit never runs, and the detector is not invoked again.
C7_DetectorFailureIsFatal ==
  (detector # << >> /\ detector[1] # 0) =>
    /\ pc = "abort" /\ err # NoError
    /\ loaded = << >>
    /\ ba_model_no_outliers = NoStore
    /\ run # 2 /\ steps[2] = 0
    /\ Len(detector) = 1

\* what the code does instead: the detector exited with status 1, and the
\* second fit is running on a filtered network left by an earlier run
C7_SecondFitAfterFailure ==
  /\ detector = << 256 >>
  /\ pc = "run2"
  /\ err = NoError
  /\ loaded = << StaleNetwork >>
  /\ steps[2] > 0

\* the input file remove_outliers finds missing: the error report first
Missing(fs, cfg) ==
  IF Path(Cwd, MeanErrorsFile) \notin DOMAIN fs.content THEN << Path(Cwd, MeanErrorsFile) >>
  ELSE IF CnetPath(cfg) \notin DOMAIN fs.content THEN << CnetPath(cfg) >>
  ELSE << >>

\* C8: if the error-report file or the input control-network file is
\* missing when detection starts, remove_outliers raises an I/O error that
\* names the missing path, the detector process is never invoked and the
\* second fit never runs.
C8_MissingInputIsIOError ==
  /\ [][ ( /\ pc = "ran1" /\ config.remove_outliers
           /\ pc' # "ran1"
           /\ Missing(files, config) # << >> )
         => /\ pc' = "abort"
            /\ err' = [type |-> "IOErr", path |-> Missing(files, config)[1]]
            /\ detector' = << >> ]_vars
  /\ []( ( /\ pc = "abort" /\ run = 1 /\ err.type = "IOErr"
            /\ err.path \in { Path(Cwd, MeanErrorsFile), CnetPath(config) } )
           => /\ detector = << >> /\ loaded = << >>
              /\ steps[2] = 0 /\ finals[2] = 0
              /\ ba_model_no_outliers = NoStore )
  /\ [][ pc = "abort" => pc' = "abort" ]_vars

\* the first fit ran at a report level below 35, no error report exists,
\* and detection ended with the I/O error naming it
C8_Witness ==
  /\ pc = "abort"
  /\ finals[1] = 1
  /\ config.report_level < ReportThreshold
  /\ Path(Cwd, MeanErrorsFile) \notin DOMAIN files.content
  /\ err = IOErr(Path(Cwd, MeanErrorsFile))

\* the input control network vanished before detection, which ended with
\* the I/O error naming it
C8_WitnessCnet ==
  /\ pc = "abort"
  /\ finals[1] = 1
  /\ Path(Cwd, MeanErrorsFile) \in DOMAIN files.content
  /\ err = IOErr(CnetPath(config))

\* a directory has the name of the error report, and detection ended with
\* the I/O error naming it
C8_WitnessDirectory ==
  /\ pc = "abort"
  /\ finals[1] = 1
  /\ config.report_level >= ReportThreshold
  /\ is_directory(files, Path(Cwd, MeanErrorsFile))
  /\ err = IOErr(Path(Cwd, MeanErrorsFile))

\* C9: the second-pass store is a newly constructed store bound to the
\* filtered network, with the camera list and the three sigmas of the first
\* pass; when the second fit starts every camera parameter is all zero and
\* every point parameter is the position in the filtered network, whatever
\* the first fit converged to.
C9_SecondPassColdStart ==
  started[2].kind = "store" =>
    /\ started[2].m_network = loaded[1]
    /\ started[2].m_cameras = started[1].m_cameras
    /\ started[2].m_cameras = fitted[1].m_cameras
    /\ started[2].m_camera_position_sigma = started[1].m_camera_position_sigma
    /\ started[2].m_camera_pose_sigma = started[1].m_camera_pose_sigma
    /\ started[2].m_gcp_sigma = started[1].m_gcp_sigma
    /\ AtPriors(started[2])
    /\ (pc = "run2" /\ steps[2] = 0) => ba_model_no_outliers = started[2]

\* the second fit is about to start after a first fit that moved the parameters
C9_Witness ==
  /\ pc = "run2"
  /\ steps[2] = 0
  /\ steps[1] > 0
  /\ fitted[1].a # started[1].a
  /\ fitted[1].b # started[1].b
  /\ ba_model_no_outliers = started[2]

\* C10: on every exit path of the iteration controller (delta 0, budget
\* used up, tolerance reached, no step executed) end_tie_in is invoked
\* exactly once, after the last update step of the run and never before or
\* between update steps.
C10_FinalizeOncePerRun ==
  /\ []( /\ finals[1] = (IF Ran1 THEN 1 ELSE 0)
         /\ finals[2] = (IF Ran2 THEN 1 ELSE 0) )
  /\ [][ \A r \in 1..2 :
           /\ steps'[r] # steps[r] => (finals[r] = 0 /\ finals'[r] = 0)
           /\ finals'[r] # finals[r] => (steps'[r] = steps[r] /\ InRun /\ ~InRun') ]_vars

\* a cycle has ended in which both runs made steps and were finalized
C10_Witness ==
  /\ pc = "exit0"
  /\ finals = << 1, 1 >>
  /\ steps[1] > 0 /\ steps[2] > 0

\* a run that made no step was finalized
C10_WitnessNoStep ==
  /\ pc = "ran1"
  /\ steps[1] = 0
  /\ finals[1] = 1

\* C11: an update step is never executed when the absolute or the relative
\* tolerance the preceding update step reported is below 1e-3; and the first
\* step of a run is never prevented by the tolerance check: with
\* max_iterations > 0 a run that has made no step makes one.
C11_TolerancesCheckedBeforeStep ==
  [][ /\ (InRun /\ (DLt(abs_tol, Tolerance) \/ DLt(rel_tol, Tolerance))) => steps' = steps
      /\ (InRun /\ steps[run] = 0) =>
           /\ ~DLt(abs_tol, Tolerance) /\ ~DLt(rel_tol, Tolerance)
           /\ config.max_iterations > 0 => steps' = [steps EXCEPT ![run] = 1] ]_vars

\* a step reported a tolerance below 1e-3 together with a non-zero delta,
\* below the budget
C11_Witness ==
  /\ pc = "run1"
  /\ steps[1] >= 1
  /\ steps[1] < config.max_iterations
  /\ DTrue(overall_delta)
  /\ DLt(abs_tol, Tolerance) \/ DLt(rel_tol, Tolerance)

\* the pass that is the last of the cycle
LastPass == IF config.remove_outliers THEN 2 ELSE 1

ConfigFile == Path(Cwd, ConfigFileDefault)

\* the user gave the option, on the command line or in the configuration file
Given(name) ==
  \/ name \in DOMAIN argv
  \/ IsFile(files, ConfigFile) /\ name \in DOMAIN ReadFile(files, ConfigFile)

\* the value the user gave the control option, 0 if none
ControlGiven ==
  IF "control" \in DOMAIN argv THEN argv["control"]
  ELSE IF IsFile(files, ConfigFile) /\ "control" \in DOMAIN ReadFile(files, ConfigFile)
  THEN ReadFile(files, ConfigFile)["control"]
  ELSE 0

\* a configuration error: no control network, no camera file, or a control
\* that is neither 0 nor 1
ConfigError ==
  \/ ~Given("cnet")
  \/ ~Given("input-files")
  \/ ControlGiven \notin { 0, 1 }

\* nothing of the core exists or has run
NoCore ==
  /\ ba_model = NoStore /\ ba_model_no_outliers = NoStore
  /\ bundle_adjuster = NoAdjuster /\ bundle_adjuster_no_outliers = NoAdjuster
  /\ run = 0 /\ steps = << 0, 0 >> /\ finals = << 0, 0 >>

\* the configuration is printed instead of being checked: print-config is
\* given, help is not, and the configuration file can be read
PrintsConfig ==
  /\ "print-config" \in DOMAIN argv
  /\ "help" \notin DOMAIN argv
  /\ IsFile(files, ConfigFile)

\* C13 (as claimed): with a configuration error option parsing ends the run
\* with a non-zero exit before any parameter store is constructed and before
\* any solver step runs.
C13_ConfigErrorExitsNonZero ==
  (ConfigError /\ pc # "parse_options") => (pc = "exit1" /\ NoCore)

\* C13 (amended): with a configuration error option parsing ends the run
\* before any parameter store is constructed and before any solver step
\* runs; the exit is non-zero unless print-config makes parse_options print
\* the configuration and exit with status 0 before it checks it.
C13_ConfigErrorEndsInParsing ==
  (ConfigError /\ pc # "parse_options") =>
    /\ pc = (IF PrintsConfig THEN "exit0" ELSE "exit1")
    /\ config = NoOptions
    /\ NoCore

\* a command line with a control of 2 and nothing else wrong ended the run
\* in parse_options with a non-zero exit
C13_Witness ==
  /\ pc = "exit1"
  /\ Given("cnet") /\ Given("input-files")
  /\ ControlGiven = 2
  /\ "help" \notin DOMAIN argv /\ "print-config" \notin DOMAIN argv
  /\ IsFile(files, ConfigFile)
  /\ NoCore

\* no control network was given, and print-config ended the run with status 0
C13_WitnessPrintConfig ==
  /\ pc = "exit0"
  /\ ~Given("cnet")
  /\ PrintsConfig
  /\ NoCore

\* C14: after option parsing remove_outliers is true whenever the user gave
\* outlier-sd-cutoff, on the command line or in the configuration file, even
\* without the remove-outliers switch; when neither is given remove_outliers
\* is false and the cutoff is 2.
C14_CutoffImpliesRemoval ==
  config # NoOptions =>
    /\ Given("outlier-sd-cutoff") => config.remove_outliers
    /\ (~Given("outlier-sd-cutoff") /\ ~Given("remove-outliers")) =>
         (~config.remove_outliers /\ config.outlier_sd_cutoff = D(2, 0))
    /\ Given("remove-outliers") => config.remove_outliers
    /\ config.remove_outliers => pc \notin { "report", "exit0" } \/ run = 2

\* parse_options returned for a configuration file that gives the cutoff its
\* default value, without the remove-outliers switch, and the second fit runs
C14_Witness ==
  /\ pc = "run2"
  /\ "outlier-sd-cutoff" \notin DOMAIN argv
  /\ "remove-outliers" \notin DOMAIN argv
  /\ Given("outlier-sd-cutoff")
  /\ config.outlier_sd_cutoff = D(2, 0)
  /\ config.remove_outliers

\* parse_options returned with neither the cutoff nor the switch given
C14_WitnessNeither ==
  /\ pc = "exit0"
  /\ config # NoOptions
  /\ ~Given("outlier-sd-cutoff") /\ ~Given("remove-outliers")
  /\ ~config.remove_outliers

\* the settings an adjuster has received through its setters
Received(adjuster) == { adjuster.calls[k] : k \in DOMAIN adjuster.calls }

\* C15 (as claimed): before its first update step the second-pass solver has
\* received the same user lambda (when one was supplied) and the same control
\* setting as the first-pass solver, and it is of the same strategy.
C15_SecondFitConfiguredAsFirst ==
  (pc = "run2" /\ steps[2] = 0) =>
    /\ bundle_adjuster_no_outliers.kind = bundle_adjuster.kind
    /\ Received(bundle_adjuster_no_outliers) = Received(bundle_adjuster)
    /\ << "set_control", config.control >> \in Received(bundle_adjuster_no_outliers)
    /\ config.use_user_lambda =>
         << "set_lambda", config.lambda >> \in Received(bundle_adjuster_no_outliers)

\* what the code does instead: with --control 1 the first-pass solver has
\* been given the control twice and the second-pass solver, which has made
\* a step, never
C15_SecondFitWithoutControl ==
  /\ pc = "run2"
  /\ steps[2] > 0
  /\ config.control = 1
  /\ bundle_adjuster.calls = << << "set_control", 1 >>, << "set_control", 1 >> >>
  /\ bundle_adjuster_no_outliers.calls = << >>

\* the positions of a two-pass cycle, in program order: FirstFit is run1,
\* Detecting starts at ran1, Reloading at load, SecondFit is run2 and Done
\* is reached at report
PhaseOrder ==
  << "main", "adjust_bundles", "run1", "ran1", "load", "run2", "ran2", "report", "exit0" >>

Rank(p) == CHOOSE k \in 1..Len(PhaseOrder) : PhaseOrder[k] = p

\* C16: with outlier removal enabled and no failure the phases happen once
\* each, in the order FirstFit, Detecting, Reloading, SecondFit, Done: the
\* first fit is finalized before the detector is invoked, the detector has
\* returned before the filtered network is loaded and the new store built,
\* the second fit starts only when the new store exists, and no phase is
\* repeated or skipped.
C16_PhasesInOrderOnce ==
  /\ [][ (config.remove_outliers /\ pc' # pc /\ pc' # "abort")
           => Rank(pc') = Rank(pc) + 1 ]_vars
  /\ [][ /\ detector' # detector =>
             (pc = "ran1" /\ finals[1] = 1 /\ detector = << >> /\ loaded = << >>)
         /\ loaded' # loaded =>
             (pc = "load" /\ Len(detector) = 1 /\ loaded = << >> /\ run = 1)
         /\ ba_model_no_outliers = NoStore /\ ba_model_no_outliers' # NoStore =>
             (pc = "load" /\ loaded' # << >> /\ ba_model_no_outliers'.m_network = loaded'[1])
         /\ steps'[1] # steps[1] => (pc = "run1" /\ detector = << >> /\ finals[1] = 0)
         /\ steps'[2] # steps[2] =>
             (pc = "run2" /\ ba_model_no_outliers # NoStore /\ finals = << 1, 0 >>) ]_vars
  /\ []( config.remove_outliers =>
           /\ run = 2 => (ba_model_no_outliers # NoStore /\ Len(loaded) = 1)
           /\ Returned => ( /\ finals = << 1, 1 >>
                            /\ Len(detector) = 1 /\ Len(loaded) = 1
                            /\ run = 2 ) )

\* a two-pass cycle without a failure is done, both fits having made steps
C16_Witness ==
  /\ config.remove_outliers
  /\ pc = "report"
  /\ detector = << 0 >>
  /\ Len(loaded) = 1
  /\ steps[1] > 0 /\ steps[2] > 0

\* the error report FirstFit's finalize step writes
FirstFitReport == << "image errors of pass", 1 >>

\* C17 (as claimed): the error report handed to the detector is the one
\* FirstFit's finalize step produced in the same run, never one left over
\* from an earlier run, at every report level.
C17_DetectorGetsFirstFitReport ==
  (pc = "load" /\ detector # << >>) =>
    ReadFile(files, Path(Cwd, MeanErrorsFile)) = FirstFitReport

\* what the code does instead: at report level 34 the first fit wrote no
\* report, and the detector ran, with exit status 0, on the report an
\* earlier run left in the working directory
C17_StaleReportConsumed ==
  /\ pc = "load"
  /\ detector = << 0 >>
  /\ config.report_level < ReportThreshold
  /\ finals[1] = 1
  /\ ReadFile(files, Path(Cwd, MeanErrorsFile)) = << "image errors of pass", 0 >>

\* C18 (as claimed): at no point of the cycle do the first-pass store and
\* the second-pass store exist at the same time.
C18_StoresNeverCoexist ==
  ~(ba_model # NoStore /\ ba_model_no_outliers # NoStore)

\* C18 (amended): the two stores are distinct objects that coexist during
\* the second pass: FirstFit operates on the first-pass store only, before
\* the second exists; SecondFit operates on the second-pass store only and
\* leaves the first-pass store as the first fit left it, until the
\* assignment at the end of the cycle overwrites it with the second.
C18_StoresDistinct ==
  /\ []( /\ bundle_adjuster # NoAdjuster => bundle_adjuster.model = "ba_model"
         /\ bundle_adjuster_no_outliers # NoAdjuster =>
              bundle_adjuster_no_outliers.model = "ba_model_no_outliers"
         /\ pc \in { "run2", "ran2" } =>
              (ba_model = fitted[1] /\ ba_model_no_outliers # NoStore)
         /\ pc \in { "adjust_bundles", "run1", "ran1", "load" } => ba_model_no_outliers = NoStore )
  /\ [][ /\ steps'[1] # steps[1] =>
             (ba_model_no_outliers = NoStore /\ ba_model_no_outliers' = NoStore)
         /\ steps'[2] # steps[2] => ba_model' = ba_model
         /\ (ba_model # NoStore /\ ba_model' # ba_model) =>
             \/ pc = "run1" /\ steps'[1] # steps[1]
             \/ pc = "ran2" /\ ba_model' = ba_model_no_outliers ]_vars

\* the second fit has moved the parameters of the second-pass store while
\* the first-pass store still holds what the first fit left
C18_Witness ==
  /\ pc = "run2"
  /\ steps[2] > 0
  /\ ba_model = fitted[1]
  /\ ba_model # started[1]
  /\ ba_model_no_outliers # started[2]

\* C19 (as claimed): after any sequence of the public operations of a store
\* the number of camera parameter vectors and of camera priors is the number
\* of cameras, the number of point parameter vectors and of point priors is
\* the number of points of the network the store is bound to, and that
\* network is the one the store (or the store assigned to it) was
\* constructed from.
C19_SizesMatchBoundNetwork ==
  /\ Len(ba_model.a) = Len(ba_model.m_cameras)
  /\ Len(ba_model.a_target) = Len(ba_model.m_cameras)
  /\ Len(ba_model.b) = Len(ba_model.m_network)
  /\ Len(ba_model.b_target) = Len(ba_model.m_network)
  /\ ba_model.m_network \in { started[1].m_network, started[2].m_network }

\* what the code does instead: control_network(cnet) has bound the store to
\* a network with fewer points than it has point parameters and priors
C19_ReboundWithoutResize ==
  /\ call.op = "control_network"
  /\ Len(ba_model.m_network) < num_points(ba_model)
  /\ Len(ba_model.m_network) < Len(ba_model.b_target)
  /\ ba_model.m_network # started[1].m_network

\* the members of a store the parameter setters do not write
Fixed(store) ==
  << store.a_target, store.b_target, store.m_cameras, store.m_network,
     store.m_num_pixel_observations, store.m_camera_position_sigma,
     store.m_camera_pose_sigma, store.m_gcp_sigma >>

\* C20: set_A_parameters(j, v) changes only the current parameter vector of
\* camera j and set_B_parameters(i, v) only that of point i: every other
\* current vector, every prior, the sigmas, the camera list and the bound
\* network stay as they are, so A_target(j) and B_target(i) return what the
\* constructor stored for as long as only the setters are called.
C20_SettersChangeOneVector ==
  /\ [][ /\ call'.op = "set_A_parameters" =>
             /\ Fixed(ba_model') = Fixed(ba_model)
             /\ ba_model'.b = ba_model.b
             /\ DOMAIN ba_model'.a = DOMAIN ba_model.a
             /\ \A k \in DOMAIN ba_model.a :
                  k # call'.index + 1 => ba_model'.a[k] = ba_model.a[k]
             /\ \A j \in 0..(num_cameras(ba_model) - 1) :
                  A_target(ba_model', j) = A_target(ba_model, j)
         /\ call'.op = "set_B_parameters" =>
             /\ Fixed(ba_model') = Fixed(ba_model)
             /\ ba_model'.a = ba_model.a
             /\ DOMAIN ba_model'.b = DOMAIN ba_model.b
             /\ \A k \in DOMAIN ba_model.b :
                  k # call'.index + 1 => ba_model'.b[k] = ba_model.b[k]
             /\ \A i \in 0..(num_points(ba_model) - 1) :
                  B_target(ba_model', i) = B_target(ba_model, i)
         /\ call'.op \in { "set_A_parameters", "set_B_parameters" } =>
             ba_model_no_outliers' = ba_model_no_outliers ]_<< call, ba_model, ba_model_no_outliers >>
  /\ []( /\ ba_model.a_target \in { started[1].a_target, started[2].a_target }
         /\ ba_model.b_target \in { started[1].b_target, started[2].b_target }
         /\ \A j \in 0..(num_cameras(ba_model) - 1) : AllZero(A_target(ba_model, j)) )

\* both setters have been called and have moved a camera and a point
\* parameter away from the priors, which are as constructed
C20_Witness ==
  /\ call.op = "set_B_parameters"
  /\ ba_model.a # ba_model.a_target
  /\ ba_model.b # ba_model.b_target
  /\ ba_model.a_target = started[1].a_target
  /\ ba_model.b_target = started[1].b_target
  /\ \E j \in 0..(num_cameras(ba_model) - 1) :
       A_parameters(ba_model, j) = A_target(ba_model, j)

\* the measures of point i (from 0) that occur in a list of pixel errors, in the order of the list
CamerasOf(list, i) ==
  LET OfPoint(e) == e.point = i
      sel == SelectSeq(list, OfPoint)
  IN  [k \in 1..Len(sel) |-> sel[k].camera_idx]

GroundControlPoints(network) ==
  { i \in 1..Len(network) : network[i].type = "GroundControlPoint" }

\* C21: the four diagnostics never change a current or prior parameter of
\* the store, and each replaces the contents of its output list: after a
\* call the list has one entry per observation in point-major order
\* (image_errors), per camera (camera_position_errors, camera_pose_errors)
\* or per ground control point (gcp_errors), whatever the list held before,
\* so the same diagnostic called twice in a row leaves the same list.
C21_DiagnosticsReadOnlyAndReplace ==
  [][ /\ call'.op \in { "image_errors", "camera_position_errors", "camera_pose_errors",
                         "gcp_errors" } =>
           /\ ba_model' = ba_model
           /\ ba_model_no_outliers' = ba_model_no_outliers
           /\ call.op = call'.op => errors' = errors
      /\ call'.op = "image_errors" =>
           /\ Len(errors') = ba_model.m_num_pixel_observations
           /\ \A k \in 1..Len(errors'), l \in 1..Len(errors') :
                k < l => errors'[k].point <= errors'[l].point
           /\ \A i \in 1..Len(ba_model.m_network) :
                CamerasOf(errors', i - 1) = ba_model.m_network[i].measures
           /\ \A k \in 1..Len(errors') :
                /\ errors'[k].a = A_parameters(ba_model, errors'[k].camera_idx)
                /\ errors'[k].b = B_parameters(ba_model, errors'[k].point)
      /\ call'.op = "camera_position_errors" =>
           /\ Len(errors') = Len(ba_model.m_cameras)
           /\ \A j \in 1..Len(errors') :
                errors'[j] = 0 <=>
                  \A k \in 1..3 : ba_model.a[j][k] = ba_model.a_target[j][k]
      /\ call'.op = "camera_pose_errors" =>
           /\ Len(errors') = Len(ba_model.m_cameras)
           /\ \A j \in 1..Len(errors') :
                errors'[j].pi = errors'[j].pn <=>
                  \A k \in 4..6 : ba_model.a[j][k] = ba_model.a_target[j][k]
      /\ call'.op = "gcp_errors" =>
           /\ Len(errors') = Cardinality(GroundControlPoints(ba_model.m_network))
           /\ (\A i \in GroundControlPoints(ba_model.m_network) :
                  ba_model.b[i] = ba_model.b_target[i])
                <=> \A k \in 1..Len(errors') : errors'[k] = 0 ]_vars

\* gcp_errors has been called on a store with more points than ground
\* control points, whose parameters the solver had moved
C21_Witness ==
  /\ call.op = "gcp_errors"
  /\ pc = "end_tie_in"
  /\ Len(errors) = 1
  /\ errors[1] > 0
  /\ num_points(ba_model) > 1
  /\ ba_model.a # ba_model.a_target

\* image_errors has been called on a store with several observations
C21_WitnessImage ==
  /\ call.op = "image_errors"
  /\ Len(errors) > NumCams
  /\ ba_model.b # ba_model.b_target

\* the two snapshot files of the cycle
CameraSnapshot == Path(AdjustResultsDir(config), CameraParamsReportFile)

PointSnapshot == Path(AdjustResultsDir(config), PointsReportFile)

\* the rows of a file, none if it does not exist
Rows(fs, p) == IF IsFile(fs, p) THEN ReadFile(fs, p) ELSE << >>

\* the number of points of the store of a pass, 0 before it is built
PointsOf(r) == IF started[r] = NoStore THEN 0 ELSE Len(started[r].b)

\* C22: with snapshotting enabled each executed update step is followed,
\* before the next stop check, by exactly one append of the store's current
\* camera parameters and one of its current point positions, so that k
\* update steps make k camera and k point appends; with snapshotting
\* disabled no append ever happens.
C22_OneSnapshotPerStep ==
  /\ [][ \A r \in 1..2 :
           (steps'[r] # steps[r] /\ config.save_iteration_data) =>
             LET store == IF r = 1 THEN ba_model' ELSE ba_model_no_outliers'
             IN  /\ steps'[r] = steps[r] + 1
                 /\ Len(Rows(files', CameraSnapshot))
                      = Len(Rows(files, CameraSnapshot)) + 6 * num_cameras(store)
                 /\ Len(Rows(files', PointSnapshot))
                      = Len(Rows(files, PointSnapshot)) + num_points(store)
                 /\ \A j \in 1..num_cameras(store) :
                      Rows(files', CameraSnapshot)[Len(Rows(files, CameraSnapshot)) + 6 * (j - 1) + 1]
                        = << j - 1, store.a[j][1], store.a[j][2], store.a[j][3] >>
                 /\ \A i \in 1..num_points(store) :
                      Rows(files', PointSnapshot)[Len(Rows(files, PointSnapshot)) + i]
                        = << i - 1, store.b[i][1], store.b[i][2], store.b[i][3] >> ]_vars
  /\ []( (config.save_iteration_data /\ run >= 1) =>
           /\ Len(Rows(files, CameraSnapshot)) = 6 * NumCams * (steps[1] + steps[2])
           /\ Len(Rows(files, PointSnapshot))
                = steps[1] * PointsOf(1) + steps[2] * PointsOf(2) )
  /\ []( ~config.save_iteration_data =>
           ~Exists(files, CameraSnapshot) /\ ~Exists(files, PointSnapshot) )

\* a two-pass cycle with snapshotting has ended, both fits having made steps
C22_Witness ==
  /\ config.save_iteration_data
  /\ pc = "exit0"
  /\ steps[1] = MaxIter /\ steps[2] > 0
  /\ Len(Rows(files, PointSnapshot)) > 0

\* a fit with snapshotting made no step and appended nothing
C22_WitnessNoStep ==
  /\ config.save_iteration_data
  /\ pc = "ran1"
  /\ steps[1] = 0
  /\ IsFile(files, CameraSnapshot)
  /\ Rows(files, CameraSnapshot) = << >>

\* C23: snapshotting never influences the stop decision: of two runs of the
\* iteration controller on the same store and budget, one with snapshotting
\* and one without, to which the solver reports the same, both execute the
\* same number of update steps, stop for the same reason and leave the same
\* parameter values in the store; only the snapshot files tell them apart.
C23_SnapshotsDoNotSteer ==
  LET on == twin[TRUE]
      off == twin[FALSE]
  IN  /\ on.steps = off.steps
      /\ on.stop = off.stop
      /\ on.store = off.store
      /\ on.adjuster = off.adjuster
      /\ << on.overall_delta, on.abs_tol, on.rel_tol >>
           = << off.overall_delta, off.abs_tol, off.rel_tol >>
      /\ ~Exists(off.files, CameraSnapshot) /\ ~Exists(off.files, PointSnapshot)
      /\ Len(Rows(on.files, CameraSnapshot)) = 6 * NumCams * on.steps

\* both runs used the whole budget and the saving one wrote its snapshots
C23_Witness ==
  /\ twin[TRUE].stop = "break"
  /\ twin[FALSE].stop = "break"
  /\ twin[TRUE].steps = MaxIter
  /\ twin[TRUE].store # ba_model
  /\ Rows(twin[TRUE].files, PointSnapshot) # << >>

\* both runs stopped on a zero delta after one step
C23_WitnessDelta ==
  /\ twin[TRUE].stop = "delta"
  /\ twin[FALSE].stop = "delta"
  /\ twin[FALSE].steps = 1

\* C24: each snapshot append writes one row per entity, indexed by the
\* entity: the camera snapshot gains exactly one row per camera carrying that
\* camera's full current parameter vector (translation and rotation
\* correction), and the point snapshot gains exactly one row per point
\* carrying its current position, in index order.
C24_OneFullRowPerEntity ==
  [][ \A r \in 1..2 :
        (steps'[r] # steps[r] /\ config.save_iteration_data) =>
          LET store == IF r = 1 THEN ba_model' ELSE ba_model_no_outliers'
              cams == Len(Rows(files, CameraSnapshot))
              points == Len(Rows(files, PointSnapshot))
          IN  /\ Len(Rows(files', CameraSnapshot)) = cams + num_cameras(store)
              /\ \A j \in 1..num_cameras(store) :
                   Rows(files', CameraSnapshot)[cams + j] = << j - 1 >> \o store.a[j]
              /\ Len(Rows(files', PointSnapshot)) = points + num_points(store)
              /\ \A i \in 1..num_points(store) :
                   Rows(files', PointSnapshot)[points + i] = << i - 1 >> \o store.b[i] ]_vars

\* a step changed a camera's rotation correction and the append that followed
\* wrote six rows for the camera, none of which carries the rotation
C24_RotationNotWritten ==
  /\ config.save_iteration_data
  /\ pc = "run1"
  /\ steps[1] = 1
  /\ subvector(ba_model.a[1], 3, 3) # << 0, 0, 0 >>
  /\ Len(Rows(files, CameraSnapshot)) = 6 * NumCams
  /\ \A k \in 1..6 : Rows(files, CameraSnapshot)[k][1] = 0
  /\ \A k \in 2..6 : Rows(files, CameraSnapshot)[k] \in
                        { << 0, 1, 0, 0 >>, << 0, 0, 1, 0 >>, << 0, 0, 0, 1 >>, << 0, 0, 0, 0 >> }

\* sequence p is the beginning of sequence q
IsPrefix(p, q) == Len(p) <= Len(q) /\ SubSeq(q, 1, Len(p)) = p

\* the last n rows of a sequence of at least n rows
LastRows(rows, n) == SubSeq(rows, Len(rows) - n + 1, Len(rows))

\* C25: with snapshotting enabled the two snapshot files are truncated exactly
\* once per cycle, before the first update step of FirstFit, and never
\* truncated or rewritten afterwards: rows already written are never removed
\* or changed, and after a two-pass cycle the files hold the rows of FirstFit
\* followed by the rows of SecondFit.
C25_TruncatedOnceThenAppendOnly ==
  /\ [][ config.save_iteration_data =>
           /\ (pc = "adjust_bundles" /\ pc' = "run1") =>
                 /\ IsFile(files', CameraSnapshot) /\ Rows(files', CameraSnapshot) = << >>
                 /\ IsFile(files', PointSnapshot) /\ Rows(files', PointSnapshot) = << >>
           /\ run >= 1 =>
                 /\ IsFile(files', CameraSnapshot) /\ IsFile(files', PointSnapshot)
                 /\ IsPrefix(Rows(files, CameraSnapshot), Rows(files', CameraSnapshot))
                 /\ IsPrefix(Rows(files, PointSnapshot), Rows(files', PointSnapshot)) ]_vars
  /\ []( (config.save_iteration_data /\ Ran2) =>
           LET cams == Rows(files, CameraSnapshot)
               points == Rows(files, PointSnapshot)
               c1 == 6 * NumCams * steps[1]
               p1 == PointsOf(1) * steps[1]
           IN  /\ Len(cams) = c1 + 6 * NumCams * steps[2]
               /\ Len(points) = p1 + PointsOf(2) * steps[2]
               /\ steps[1] > 0 =>
                     /\ LastRows(SubSeq(cams, 1, c1), 6 * NumCams) = CameraRows(fitted[1], NumCams)
                     /\ LastRows(SubSeq(points, 1, p1), PointsOf(1)) = PointRows(fitted[1], PointsOf(1))
               /\ steps[2] > 0 =>
                     /\ LastRows(cams, 6 * NumCams) = CameraRows(fitted[2], NumCams)
                     /\ LastRows(points, PointsOf(2)) = PointRows(fitted[2], PointsOf(2)) )

\* a two-pass cycle with snapshotting is over, both fits having made steps,
\* the second on fewer points than the first
C25_Witness ==
  /\ config.save_iteration_data
  /\ pc = "exit0"
  /\ run = 2
  /\ steps[1] > 0 /\ steps[2] > 0
  /\ PointsOf(2) < PointsOf(1)
  /\ fitted[1].a # fitted[2].a

\* C26: for every combination of the use-ba-type-dirs and remove-outliers
\* options, the directory in which the cycle truncates and appends the
\* snapshot files, into which the detector is told to write the filtered
\* network and from which the filtered network is loaded is the results
\* directory that main created before the first fit and into which it writes
\* the initial and final dumps and the .adjust files.
C26_OneResultsDirectory ==
  run >= 1 =>
    /\ AdjustResultsDir(config) = MainResultsDir(config)
    /\ AdjustResultsDir(config) \in files.dirs

\* with a directory per strategy and outlier removal the cycle works in a
\* directory nobody created
C26_CycleInMissingDirectory ==
  /\ config # NoOptions
  /\ config.use_ba_type_dirs /\ config.remove_outliers
  /\ run >= 1
  /\ MainResultsDir(config) \in files.dirs
  /\ AdjustResultsDir(config) \notin files.dirs

\* the strategy a name names when letter case is ignored, "none" if it names none
Named(name) ==
  CASE name \in { "ref", "REF" } -> "REF"
    [] name \in { "sparse", "Sparse", "SPARSE" } -> "SPARSE"
    [] name \in { "sparse_huber", "Sparse_Huber" } -> "SPARSE_HUBER"
    [] name \in { "sparse_cauchy", "SPARSE_CAUCHY" } -> "SPARSE_CAUCHY"
    [] name \in { "robust_ref", "Robust_Ref" } -> "ROBUST_REF"
    [] name \in { "robust_sparse", "ROBUST_SPARSE" } -> "ROBUST_SPARSE"
    [] OTHER -> "none"

\* the strategy name on the command line, the default if there is none
TypeGiven ==
  IF "bundle-adjustment-type" \in DOMAIN argv THEN argv["bundle-adjustment-type"] ELSE "ref"

\* C27: solver-strategy names round-trip and the strategy is selected once:
\* the name ba_type_to_string gives a strategy is read back as that strategy,
\* the match ignores letter case, a string that is none of the six names
\* selects the reference strategy instead of raising an error, and the
\* strategy and loss function chosen in main are the ones used by both
\* FirstFit and SecondFit.
C27_StrategyNamesRoundTrip ==
  config # NoOptions =>
    /\ config.bundle_adjustment_type \in BundleAdjustmentT
    /\ string_to_ba_type(ba_type_to_string(config.bundle_adjustment_type))
         = config.bundle_adjustment_type
    /\ Named(TypeGiven) # "none" => config.bundle_adjustment_type = Named(TypeGiven)
    /\ Named(TypeGiven) = "none" => config.bundle_adjustment_type = "REF"
    /\ \A t \in BundleAdjustmentT :
         TypeGiven = ba_type_to_string(t) => config.bundle_adjustment_type = t
    /\ \A adjuster \in { bundle_adjuster, bundle_adjuster_no_outliers } \ { NoAdjuster } :
         adjuster.strategy = Strategy(config.bundle_adjustment_type)

\* a run named its strategy in mixed case and fitted twice with it
C27_Witness ==
  /\ TypeGiven = "Sparse_Huber"
  /\ pc = "exit0"
  /\ run = 2
  /\ bundle_adjuster.strategy = [adjuster |-> "AdjustSparse", cost |-> "HuberError"]
  /\ bundle_adjuster_no_outliers.strategy = bundle_adjuster.strategy

\* a run named no strategy and was fitted with the reference strategy
C27_WitnessUnknown ==
  /\ TypeGiven = "Dense"
  /\ pc = "exit0"
  /\ bundle_adjuster.strategy = [adjuster |-> "AdjustRef", cost |-> "L2Error"]

\* C28: every run of the iteration controller terminates and reaches the
\* finalize step, for every max_iterations and every sequence of deltas and
\* tolerances, provided each update call returns and increases the solver's
\* iteration count by one.
C28_EveryRunFinalizes ==
  <>[](\A save \in BOOLEAN : twin[save].stop # "none" /\ twin[save].finals = 1)

\* a run that the solver never told to stop ended on its budget and was
\* finalized
C28_Witness ==
  /\ twin[FALSE].stop = "break"
  /\ twin[FALSE].steps = MaxIter
  /\ twin[FALSE].adjuster.iterations = config.max_iterations
  /\ DTrue(twin[FALSE].overall_delta)
  /\ ~DLt(twin[FALSE].abs_tol, Tolerance) /\ ~DLt(twin[FALSE].rel_tol, Tolerance)
  /\ twin[FALSE].finals = 1
====
